---- MODULE Spec2Model ----
(***************************************************************************)
(* A model of swagger-ts-generator: the project scanner (scanProject,      *)
(* scanFile, the three route scanners, resolveSchema and its lookups) and  *)
(* the generator (generate, addRouteToSpec, normalizePath).                *)
(*                                                                         *)
(* Source text is modelled by what the scanner's patterns see in it:       *)
(*   - an identifier is a record [t, stem, sfx]: t leading letters "T",    *)
(*     a stem, sfx trailing copies of "Schema" (TUserSchema = [1,User,1]); *)
(*   - a file is its import statements, its declaration lines and its      *)
(*     route registrations, in text order;                                 *)
(*   - a path of the file system is [dir, base, ext];                      *)
(*   - a route path handed to normalizePath is a sequence of characters.   *)
(***************************************************************************)
EXTENDS Integers, Sequences, FiniteSets, TLC

VARIABLES
  pathIn,      \* the argument of SwaggerGenerator.normalizePath
  pathOut,     \* its return value, Unset before the call
  config,      \* the SwaggerConfig handed to SwaggerGenerator.generate
  routeList,   \* the RouteInfo[] handed to it
  spec,        \* the SwaggerSpec it returned, NotGenerated before the call
  fs,          \* the file system: path -> [readable, imports, lines, regs]
  query,       \* the identifier whose resolution is observed
  seen,        \* originating file -> result of the first resolveSchema call made from it
  rs,          \* the latest resolveSchema call: [name, file, result, log], or NoCall
  heap,        \* the RouteInfo[] arrays allocated so far (array id -> contents)
  instRoutes,  \* ProjectScanner instance -> array id held in its field this.routes
  inv,         \* the scanProject invocations: [pc, inst, paths, pi, files, fi, ret, after]
  decl,        \* the declaration text handed to a converter: [dialect, call, braces, lines]
  conv         \* what the converter returned for it, NotConverted before the call

pathVars == <<pathIn, pathOut, config, routeList, spec>>
resolveVars == <<query, seen, rs>>
scanVars == <<heap, instRoutes, inv>>
convVars == <<decl, conv>>
vars == <<pathIn, pathOut, config, routeList, spec, fs, query, seen, rs, heap, instRoutes, inv, decl, conv>>

-----------------------------------------------------------------------------
(* Bounds *)

\* longest enumerated route path, in characters
MaxPathLen == 5

-----------------------------------------------------------------------------
(* SwaggerGenerator.normalizePath: path.replace(/:(\w+)/g, '{$1}') *)

Unset == <<"<unset>">>

\* \w of the pattern, restricted to the characters used in the model
WordChars == {"a", "u", "s", "e", "r", "i", "d", "p", "o", "t", "I", "_", "0"}

IsWord(c) == c \in WordChars

\* the index of the last character of the maximal \w run that starts at i
RECURSIVE WordRunEnd(_, _)
WordRunEnd(p, i) ==
  IF i < Len(p) /\ IsWord(p[i + 1]) THEN WordRunEnd(p, i + 1) ELSE i

\* one pass of the global replace, from index i on: at a colon that is followed
\* by a word character the match `:name` is replaced by `{name}` and the scan
\* resumes after the name; any other character is copied.
RECURSIVE ReplaceFrom(_, _)
ReplaceFrom(p, i) ==
  IF i > Len(p) THEN <<>>
  ELSE IF p[i] = ":" /\ i < Len(p) /\ IsWord(p[i + 1])
       THEN LET j == WordRunEnd(p, i + 1)
            IN  <<"{">> \o SubSeq(p, i + 1, j) \o <<"}">> \o ReplaceFrom(p, j + 1)
       ELSE <<p[i]>> \o ReplaceFrom(p, i + 1)

\* the same replace without the g flag: only the first match is replaced
RECURSIVE ReplaceFirstFrom(_, _)
ReplaceFirstFrom(p, i) ==
  IF i > Len(p) THEN <<>>
  ELSE IF p[i] = ":" /\ i < Len(p) /\ IsWord(p[i + 1])
       THEN LET j == WordRunEnd(p, i + 1)
            IN  <<"{">> \o SubSeq(p, i + 1, j) \o <<"}">> \o SubSeq(p, j + 1, Len(p))
       ELSE <<p[i]>> \o ReplaceFirstFrom(p, i + 1)

normalizePathFirstOnly(p) == ReplaceFirstFrom(p, 1)

normalizePath(p) == ReplaceFrom(p, 1)

PathAlphabet == {"/", ":", "a", "-"}

ExamplePath ==
  <<"/", "u", "s", "e", "r", "s", "/", ":", "i", "d", "/",
    "p", "o", "s", "t", "s", "/", ":", "p", "o", "s", "t", "I", "d">>

ExampleNormalized ==
  <<"/", "u", "s", "e", "r", "s", "/", "{", "i", "d", "}", "/",
    "p", "o", "s", "t", "s", "/", "{", "p", "o", "s", "t", "I", "d", "}">>

RoutePaths ==
  {ExamplePath} \cup UNION {[1..n -> PathAlphabet] : n \in 0..MaxPathLen}

IdleGenerate == config = <<>> /\ routeList = <<>> /\ spec = <<>>

InitPath == pathIn \in RoutePaths /\ pathOut = Unset /\ IdleGenerate

\* addRouteToSpec's call: const path = this.normalizePath(route.path)
NormalizePathCall ==
  /\ pathOut = Unset
  /\ pathOut' = normalizePath(pathIn)
  /\ UNCHANGED <<pathIn, config, routeList, spec, fs, resolveVars, scanVars, convVars>>

-----------------------------------------------------------------------------
(* Identifiers *)

Ident(t, stem, sfx) == [t |-> t, stem |-> stem, sfx |-> sfx]

\* the test that every identifier passes
startsWithTAnyName(n) == TRUE

\* schemaName.startsWith('T')
startsWithT(n) == n.t > 0

\* schemaName.replace(/^T/, ''): one leading T is removed, if there is one
stripLeadingT(n) == IF n.t > 0 THEN [n EXCEPT !.t = @ - 1] ELSE n

\* schemaName + 'Schema'
appendSchema(n) == [n EXCEPT !.sfx = @ + 1]

\* schemaName.endsWith('Schema')
endsWithSchema(n) == n.sfx > 0

-----------------------------------------------------------------------------
(* The file system, as fs and path of Node see it *)

NoFile == [dir |-> <<>>, base |-> "", ext |-> ""]

Range(s) == {s[k] : k \in DOMAIN s}

RECURSIVE Flatten(_)
Flatten(ss) == IF ss = <<>> THEN <<>> ELSE Head(ss) \o Flatten(Tail(ss))

Undefined == [type |-> "undefined"]
Thrown == [type |-> "throw"]

existsSync(p) == p \in DOMAIN fs

\* fs.readFileSync(p, 'utf-8'): the content, or an exception (EACCES, EISDIR)
readFileSync(p) == IF fs[p].readable THEN fs[p] ELSE Thrown

\* path.resolve(path.dirname(currentFilePath), importPath + '.ts'): an import
\* specifier is [up, segs, base], up leading "..", then directories, then the
\* module's base name; a bare or aliased specifier ('@/lib/x') is resolved
\* like a relative one.
resolvedPath(currentFilePath, importPath) ==
  [dir  |-> SubSeq(currentFilePath.dir, 1, Len(currentFilePath.dir) - importPath.up)
              \o importPath.segs,
   base |-> importPath.base,
   ext  |-> "ts"]

\* extractImports: the Map built from `import { a, b } from 'x'` statements in
\* text order; a later statement overwrites an earlier entry of the same name.
extractImports(content) ==
  LET stmts == content.imports
      names == {stmts[k].name : k \in DOMAIN stmts}
      last(n) == CHOOSE k \in DOMAIN stmts :
                   /\ stmts[k].name = n
                   /\ \A j \in DOMAIN stmts : stmts[j].name = n => j <= k
  IN  [n \in names |-> stmts[last(n)].from]

-----------------------------------------------------------------------------
(* Lookups inside one file's text *)

\* a declaration line: `const N = z.object(...)` is kind "zod",
\* `const N = Joi.object(...)` is "joi", `export class N {` is "class",
\* `interface N {` / `type N = {` is "iface".
ConstKinds == {"zod", "joi"}

\* lines[i].includes(`const ${schemaName} =`) || ...includes(`export const ...`)
includesConst(line, schemaName) ==
  line.kind \in ConstKinds /\ line.name = schemaName

\* new RegExp(`export\s+class\s+${className}[\s\S]*?\{([\s\S]*?)\n\}`, 'm'): in a
\* template literal \s is the letter s, so the pattern that is compiled is
\* /exports+classs+NAME[sS]*?{([sS]*?)\n}/ and `export class NAME {` (with
\* white space) does not match it; only the text "exports..classs..NAME" does.
classRegexMatches(line, className) ==
  line.kind = "exportsclasss" /\ line.name = className

\* new RegExp(`(?:export\s+)?(?:interface|type)\s+${interfaceName}\s*[={]...`):
\* compiled as /(?:exports+)?(?:interface|type)s+NAMEs*[={]([sS]*?)\n}/.
interfaceRegexMatches(line, interfaceName) ==
  line.kind = "interfaces" /\ line.name = interfaceName

FirstIndex(lines, Match(_)) ==
  IF \E i \in DOMAIN lines : Match(lines[i])
  THEN CHOOSE i \in DOMAIN lines :
         Match(lines[i]) /\ \A j \in DOMAIN lines : Match(lines[j]) => i <= j
  ELSE 0

\* parseSchemaProperties / parseClassProperties / parseTypeScriptInterface: the
\* field list is a function of the declaration text and of the dialect tag.
parseProperties(body, tag) == [of |-> body, as |-> tag]

findClassDefinition(content, className) ==
  LET at(i) ==
        IF i = 0 THEN Undefined
        ELSE [type |-> "class-validator", body |-> content.lines[i].text,
              properties |-> parseProperties(content.lines[i].text, "class-validator")]
  IN  at(FirstIndex(content.lines, LAMBDA l : classRegexMatches(l, className)))

\* The first line that holds `const NAME =` is the declaration. Its tag is zod
\* when that line, or the text of the file from that line on, holds 'z.object';
\* else joi when it holds 'Joi.object'; zod otherwise.
findSchemaDefinition(content, schemaName) ==
  LET lines == content.lines
      at(i) ==
        LET restHasZod == \E j \in DOMAIN lines : j >= i /\ lines[j].kind = "zod"
            schemaType == IF restHasZod THEN "zod" ELSE "joi"
        IN  IF i = 0 THEN findClassDefinition(content, schemaName)
            ELSE [type |-> schemaType, body |-> lines[i].text,
                  properties |-> parseProperties(lines[i].text, schemaType)]
  IN  at(FirstIndex(lines, LAMBDA l : includesConst(l, schemaName)))

findTypeScriptInterface(content, interfaceName) ==
  LET at(i) ==
        IF i = 0 THEN Undefined
        ELSE [type |-> "zod", body |-> content.lines[i].text,
              properties |-> parseProperties(content.lines[i].text, "interface")]
  IN  at(FirstIndex(content.lines, LAMBDA l : interfaceRegexMatches(l, interfaceName)))

-----------------------------------------------------------------------------
(* Lookups in an imported file.  Each returns [r, reads]: the value returned *)
(* and the paths it probed, in order.                                        *)

catch(x) == IF x = Thrown THEN Undefined ELSE x

\* the lookup without its try/catch: the exception of readFileSync escapes
loadExternalSchemaSyncNoCatch(schemaName, importPath, currentFilePath) ==
  LET in(p) ==
        [r |-> IF ~existsSync(p) THEN Undefined
               ELSE IF ~fs[p].readable THEN Thrown
               ELSE findSchemaDefinition(readFileSync(p), schemaName),
         reads |-> <<p>>]
  IN  in(resolvedPath(currentFilePath, importPath))

\* the lookup made transitive: when the imported file does not declare the name
\* but imports it, the lookup goes on in that file's import target (no guard
\* against cycles other than a depth limit).
RECURSIVE LoadFollowing(_, _, _, _)
LoadFollowing(schemaName, importPath, currentFilePath, depth) ==
  LET after(p, next) == [r |-> next.r, reads |-> <<p>> \o next.reads]
      follow(p, here, imp) ==
        IF here # Undefined \/ depth = 0 \/ schemaName \notin DOMAIN imp
        THEN [r |-> here, reads |-> <<p>>]
        ELSE after(p, LoadFollowing(schemaName, imp[schemaName], p, depth - 1))
      in(p) ==
        IF ~existsSync(p) \/ ~fs[p].readable
        THEN [r |-> Undefined, reads |-> <<p>>]
        ELSE follow(p, findSchemaDefinition(fs[p], schemaName), extractImports(fs[p]))
  IN  in(resolvedPath(currentFilePath, importPath))

loadExternalSchemaSyncFollowing(schemaName, importPath, currentFilePath) ==
  LoadFollowing(schemaName, importPath, currentFilePath, 9)

loadExternalSchemaSync(schemaName, importPath, currentFilePath) ==
  LET in(p) ==
        [r |-> catch(IF ~existsSync(p) THEN Undefined
                     ELSE IF ~fs[p].readable THEN Thrown
                     ELSE findSchemaDefinition(readFileSync(p), schemaName)),
         reads |-> <<p>>]
  IN  in(resolvedPath(currentFilePath, importPath))

loadExternalTypeScriptInterface(interfaceName, importPath, currentFilePath) ==
  LET in(p) ==
        [r |-> catch(IF ~existsSync(p) THEN Undefined
                     ELSE IF ~fs[p].readable THEN Thrown
                     ELSE findTypeScriptInterface(readFileSync(p), interfaceName)),
         reads |-> <<p>>]
  IN  in(resolvedPath(currentFilePath, importPath))

-----------------------------------------------------------------------------
(* ProjectScanner.resolveSchema.  The value is [r, log]: r is what the call  *)
(* returns (Thrown when an exception leaves it), log the lookups it made, in *)
(* order, each [op, name, reads].                                            *)

Local(op, name, filePath) == [op |-> op, name |-> name, reads |-> <<filePath>>]
External(op, name, reads) == [op |-> op, name |-> name, reads |-> reads]

\* `schema = find(content, name); if (!schema && imports.has(name)) schema =
\* load(name, imports.get(name), filePath)`: the pair of lookups that each step
\* of resolveSchema makes, appended to the state st = [r, log] of the call.
schemaLookups(st, name, content, imports, filePath) ==
  LET l1 == Append(st.log, Local("find", name, filePath))
      loaded(ext) == [r |-> ext.r, log |-> Append(l1, External("load", name, ext.reads))]
      after(found) ==
        IF found = Undefined /\ name \in DOMAIN imports
        THEN loaded(loadExternalSchemaSync(name, imports[name], filePath))
        ELSE [r |-> found, log |-> l1]
  IN  after(findSchemaDefinition(content, name))

interfaceLookups(st, name, content, imports, filePath) ==
  LET l1 == Append(st.log, Local("findTs", name, filePath))
      loaded(ext) == [r |-> ext.r, log |-> Append(l1, External("loadTs", name, ext.reads))]
      after(found) ==
        IF found = Undefined /\ name \in DOMAIN imports
        THEN loaded(loadExternalTypeScriptInterface(name, imports[name], filePath))
        ELSE [r |-> found, log |-> l1]
  IN  after(findTypeScriptInterface(content, name))

\* the call that tries at most one name with the suffix: the last step is left
\* out when the type-name step has looked up a suffixed name
resolveSchemaOneSuffixedName(schemaName, content, imports, filePath) ==
  LET \* try current file first, then imported files
      direct(s0) == schemaLookups(s0, schemaName, content, imports, filePath)
      \* a TypeScript type (starts with T): try the corresponding schema
      typeName(s1) ==
        IF s1.r = Undefined /\ startsWithT(schemaName)
        THEN schemaLookups(s1, appendSchema(stripLeadingT(schemaName)),
                           content, imports, filePath)
        ELSE s1
      \* try a TypeScript interface/type definition, local then imported
      interface(s2) ==
        IF s2.r = Undefined
        THEN interfaceLookups(s2, schemaName, content, imports, filePath)
        ELSE s2
      \* if no direct match, try the schema variant (UserResponse -> UserResponseSchema)
      variant(s3) ==
        IF s3.r = Undefined /\ ~endsWithSchema(schemaName) /\ ~startsWithT(schemaName)
        THEN schemaLookups(s3, appendSchema(schemaName), content, imports, filePath)
        ELSE s3
  IN  variant(interface(typeName(direct([r |-> Undefined, log |-> <<>>]))))

resolveSchema(schemaName, content, imports, filePath) ==
  LET \* try current file first, then imported files
      direct(s0) == schemaLookups(s0, schemaName, content, imports, filePath)
      \* a TypeScript type (starts with T): try the corresponding schema
      typeName(s1) ==
        IF s1.r = Undefined /\ startsWithT(schemaName)
        THEN schemaLookups(s1, appendSchema(stripLeadingT(schemaName)),
                           content, imports, filePath)
        ELSE s1
      \* try a TypeScript interface/type definition, local then imported
      interface(s2) ==
        IF s2.r = Undefined
        THEN interfaceLookups(s2, schemaName, content, imports, filePath)
        ELSE s2
      \* if no direct match, try the schema variant (UserResponse -> UserResponseSchema)
      variant(s3) ==
        IF s3.r = Undefined /\ ~endsWithSchema(schemaName)
        THEN schemaLookups(s3, appendSchema(schemaName), content, imports, filePath)
        ELSE s3
  IN  variant(interface(typeName(direct([r |-> Undefined, log |-> <<>>]))))

-----------------------------------------------------------------------------
(* The source trees in which resolution is observed: the originating file    *)
(* src/a.ts and one module b that it may import from.                        *)

\* declarations and import entries in the two files together
MaxEntries == 3

\* declarations in the two files together
MaxDecls == 2

PathA == [dir |-> <<"src">>, base |-> "a", ext |-> "ts"]

\* where module b lives, a.ts naming it './b': "ts" is src/b.ts; "index" is
\* src/b/index.ts; "unreadable" is src/b.ts, which exists and cannot be read.
BModes == {"ts", "index", "unreadable"}

PathB(mode) ==
  IF mode = "index" THEN [dir |-> <<"src", "b">>, base |-> "index", ext |-> "ts"]
  ELSE [dir |-> <<"src">>, base |-> "b", ext |-> "ts"]

SpecifierOfB(mode) == [up |-> 0, segs |-> <<>>, base |-> "b"]

SpecifierOfA(mode) ==
  IF mode = "index" THEN [up |-> 1, segs |-> <<>>, base |-> "a"]
  ELSE [up |-> 0, segs |-> <<>>, base |-> "a"]

Queries ==
  {Ident(1, "User", 0), Ident(0, "User", 0), Ident(0, "User", 1), Ident(1, "User", 1)}

\* the names resolveSchema looks up for a query, in the order of a text
RelevantNames(q) ==
  <<q>> \o (IF startsWithT(q) THEN <<appendSchema(stripLeadingT(q))>> ELSE <<>>)
        \o (IF ~endsWithSchema(q) THEN <<appendSchema(q)>> ELSE <<>>)

DeclKinds == {"zod", "joi", "class", "iface"}

DeclSeqs(q, m) ==
  UNION {[1..k -> [name : Range(RelevantNames(q)), kind : DeclKinds]] : k \in 0..m}

\* the declaration lines of a file, each with the identity of its text
WithText(tag, decls) ==
  [k \in DOMAIN decls |->
     [name |-> decls[k].name, kind |-> decls[k].kind, text |-> <<tag, k>>]]

ImportStatements(q, chosen, from) ==
  LET names == SelectSeq(RelevantNames(q), LAMBDA n : n \in chosen)
  IN  [k \in DOMAIN names |-> [name |-> names[k], from |-> from]]

SourceFile(readable, imports, lines) ==
  [readable |-> readable, imports |-> imports, lines |-> lines, regs |-> <<>>,
   classes |-> <<>>]

NoCall == [name |-> "none"]

InitResolve ==
  \E q \in Queries, mode \in BModes :
    \E la \in DeclSeqs(q, MaxDecls) :
      \E lb \in DeclSeqs(q, MaxDecls - Len(la)) :
        \E ia \in SUBSET Range(RelevantNames(q)) :
          \E ib \in SUBSET Range(RelevantNames(q)) :
            /\ Len(la) + Len(lb) + Cardinality(ia) + Cardinality(ib) <= MaxEntries
            /\ mode = "unreadable" => lb = <<>> /\ ib = {}
            /\ query = q
            /\ fs = (PathA :> SourceFile(TRUE,
                                ImportStatements(q, ia, SpecifierOfB(mode)),
                                WithText("a", la)))
                    @@ (PathB(mode) :> SourceFile(mode # "unreadable",
                                ImportStatements(q, ib, SpecifierOfA(mode)),
                                WithText("b", lb)))
            /\ seen = <<>>
            /\ rs = NoCall

\* The call with the local `schema` kept in a field of the scanner that is not
\* reset: a schema found by an earlier call is returned again.
ResolveSchemaCallKeepingLast(name, filePath) ==
  /\ existsSync(filePath) /\ fs[filePath].readable
  /\ LET kept(out) == IF rs # NoCall /\ rs.result # Undefined THEN rs.result ELSE out.r
         returned(out) ==
           /\ rs' = [name |-> name, file |-> filePath, result |-> kept(out),
                     log |-> out.log, again |-> filePath \in DOMAIN seen]
           /\ seen' = IF filePath \in DOMAIN seen THEN seen
                      ELSE seen @@ (filePath :> kept(out))
     IN  returned(resolveSchema(name, readFileSync(filePath),
                                extractImports(readFileSync(filePath)), filePath))
  /\ UNCHANGED <<fs, query, pathVars, scanVars, convVars>>

\* A call of resolveSchema made while filePath is scanned (scanFile has read
\* its content and extracted its imports): it computes its result from the
\* arguments and the files it reads, and writes no field of the scanner.
\* rs.again tells that an earlier call had the same arguments.
ResolveSchemaCall(name, filePath) ==
  /\ existsSync(filePath) /\ fs[filePath].readable
  /\ LET returned(out) ==
           /\ rs' = [name |-> name, file |-> filePath, result |-> out.r,
                     log |-> out.log, again |-> filePath \in DOMAIN seen]
           /\ seen' = IF filePath \in DOMAIN seen THEN seen
                      ELSE seen @@ (filePath :> out.r)
     IN  returned(resolveSchema(name, readFileSync(filePath),
                                extractImports(readFileSync(filePath)), filePath))
  /\ UNCHANGED <<fs, query, pathVars, scanVars, convVars>>

NextResolve == \E p \in DOMAIN fs : ResolveSchemaCall(query, p)

-----------------------------------------------------------------------------
(* Route scanners.  A registration of a file is [dialect, method, path,      *)
(* handler, ref, later, async, bodyType, respType]: ref is the identifier of *)
(* its first argument after the path and later the identifier of an argument *)
(* after that one (express), ref is the schema named in its own options      *)
(* object (fastify) or the argument of its @UseBefore validator (decorator); *)
(* async tells that the decorated method is declared `async`, bodyType and   *)
(* respType are its @Body() parameter type and the type in its return type   *)
(* `Promise<T...>`.  NoRef stands for no identifier.  The field classes of a *)
(* file lists its class headers in text order as [at, prefix]: the header    *)
(* stands before registration `at`, prefix is the path of its                *)
(* @JsonController, <<>> when the class has none.                            *)

NoRef == Ident(0, "", 0)

\* a registration of the given dialect whose one schema reference is ref
Registration(dialect, path, ref) ==
  [dialect |-> dialect, method |-> "post", path |-> path, handler |-> "handler",
   ref |-> ref, later |-> NoRef, async |-> TRUE, bodyType |-> NoRef, respType |-> NoRef]

toUpperCase(method) ==
  CASE method = "get" -> "GET"
    [] method = "post" -> "POST"
    [] method = "put" -> "PUT"
    [] method = "delete" -> "DELETE"
    [] method = "patch" -> "PATCH"

\* the route pushed for registration k of the file: RouteInfo, and in src the
\* registration it was made from
RouteInfo(method, path, handler, validation, filePath, k) ==
  [method |-> method, path |-> path, handler |-> handler,
   validation |-> validation, src |-> <<filePath, k>>]

RegsOf(content, dialect) ==
  SelectSeq([k \in DOMAIN content.regs |-> [k |-> k, reg |-> content.regs[k]]],
            LAMBDA e : e.reg.dialect = dialect)

\* middleware.match(/(\w+(?:Schema|Dto))/)
endsWithDto(n) == n.sfx = 0 /\ n.stem = "UserDto"

matchesSchemaOrDto(n) == n # NoRef /\ (endsWithSchema(n) \/ endsWithDto(n))

extractValidationFromMiddleware(content, middleware, imports, filePath) ==
  IF ~matchesSchemaOrDto(middleware) THEN Undefined
  ELSE schemaLookups([r |-> Undefined, log |-> <<>>],
                     middleware, content, imports, filePath).r

\* the identifiers of a file in text order: imports, declarations, registrations
IdentifiersOf(content) ==
  [k \in DOMAIN content.imports |-> content.imports[k].name]
  \o [k \in DOMAIN content.lines |-> content.lines[k].name]
  \o Flatten([k \in DOMAIN content.regs |->
               <<content.regs[k].ref, content.regs[k].later, content.regs[k].bodyType,
                 content.regs[k].respType>>])

\* contextWindow.match(/(\w+Schema)/), for a file shorter than the window of
\* 1000 characters before and after the registration: the first identifier of
\* the file that ends in Schema, whichever statement it belongs to.
extractValidation(content, startIndex, imports, filePath) ==
  LET words == SelectSeq(IdentifiersOf(content), LAMBDA n : n # NoRef /\ endsWithSchema(n))
  IN  IF words = <<>> THEN Undefined
      ELSE schemaLookups([r |-> Undefined, log |-> <<>>],
                         words[1], content, imports, filePath).r

Absent == <<>>
NoProperties == [of |-> <<>>, as |-> "none"]

\* the class header that stands right before registration k, if any
classAt(content, k) == \E c \in Range(content.classes) : c.at = k

\* the registration whose method afterDecorator.match(/async\s+(\w+)\s*\([^)]*\)/)
\* finds from the decorator of registration k on: the first decorated method
\* from k on that is declared async, 0 if there is none
methodMatch(content, k) ==
  LET later == {j \in DOMAIN content.regs :
                  /\ j >= k
                  /\ content.regs[j].dialect = "decorator"
                  /\ content.regs[j].async}
  IN  IF later = {} THEN 0 ELSE CHOOSE j \in later : \A i \in later : j <= i

\* the lines from the signature of method m backwards: the registrations whose
\* decorators the loop reads before it breaks at the signature of another
\* async method or at a class header
RECURSIVE readBackwards(_, _)
readBackwards(content, j) ==
  IF classAt(content, j) \/ j = 1 THEN <<j>>
  ELSE IF content.regs[j - 1].dialect = "decorator" /\ content.regs[j - 1].async
       THEN <<j>>
  ELSE <<j>> \o readBackwards(content, j - 1)

\* the first identifier other than NoRef of a sequence, NoRef if none
FirstRef(refs) ==
  LET named == SelectSeq(refs, LAMBDA n : n # NoRef)
  IN  IF named = <<>> THEN NoRef ELSE named[1]

\* extractUseBefore for the decorator of registration k, in a file shorter
\* than its windows (1000 characters back, 500 characters on):
\* validation = {type: 'zod'}; body and properties from the first @UseBefore
\* read backwards from the method found whose schema resolves, else from the
\* first @Body() parameter type from that method on; responses['200'] from the
\* first return type from that method on; undefined when no key was added or
\* no async method follows.
extractUseBefore(content, k, imports, filePath) ==
  LET build(m, resolved) ==
        LET read == SelectSeq(readBackwards(content, m),
                              LAMBDA j : content.regs[j].dialect = "decorator")
            found == SelectSeq([i \in DOMAIN read |-> resolved[content.regs[read[i]].ref]],
                               LAMBDA r : r # Undefined)
            on == [i \in 1..(Len(content.regs) - m + 1) |-> content.regs[m + i - 1]]
            dto == resolved[FirstRef([i \in DOMAIN on |-> on[i].bodyType])]
            resp == resolved[FirstRef([i \in DOMAIN on |-> on[i].respType])]
            bodyFrom == IF found # <<>> THEN found[1] ELSE dto
        IN  IF bodyFrom = Undefined /\ resp = Undefined THEN Undefined
            ELSE [type |-> "zod",
                  body |-> IF bodyFrom # Undefined THEN bodyFrom.body ELSE Absent,
                  properties |-> IF bodyFrom # Undefined THEN bodyFrom.properties
                                 ELSE NoProperties,
                  responses |-> IF resp # Undefined THEN resp.body ELSE Absent]
  IN  IF methodMatch(content, k) = 0 THEN Undefined
      ELSE build(methodMatch(content, k),
                 [n \in {NoRef} \cup UNION {{content.regs[i].ref, content.regs[i].bodyType,
                                             content.regs[i].respType} :
                                              i \in DOMAIN content.regs} |->
                    IF n = NoRef THEN Undefined
                    ELSE resolveSchema(n, content, imports, filePath).r])

scanExpressRoutes(content, filePath, imports) ==
  LET found == RegsOf(content, "express")
  IN  [j \in DOMAIN found |->
         RouteInfo(toUpperCase(found[j].reg.method), <<found[j].reg.path>>,
                   found[j].reg.handler,
                   extractValidationFromMiddleware(content, found[j].reg.ref,
                                                   imports, filePath),
                   filePath, found[j].k)]

scanFastifyRoutes(content, filePath, imports) ==
  LET found == RegsOf(content, "fastify")
  IN  [j \in DOMAIN found |->
         RouteInfo(toUpperCase(found[j].reg.method), <<found[j].reg.path>>,
                   "fastify handler",
                   extractValidation(content, found[j].k, imports, filePath),
                   filePath, found[j].k)]

\* content.match(/@JsonController\(['"`]([^'"`]*)['"`]\)/): the path of the
\* first @JsonController of the file that has one, '' if there is none
basePath(content) ==
  LET prefixed == SelectSeq(content.classes, LAMBDA c : c.prefix # <<>>)
  IN  IF prefixed = <<>> THEN <<>> ELSE prefixed[1].prefix

scanDecorators(content, filePath, imports) ==
  LET found == RegsOf(content, "decorator")
  IN  [j \in DOMAIN found |->
         RouteInfo(toUpperCase(found[j].reg.method),
                   basePath(content) \o <<found[j].reg.path>>,
                   "controller method",
                   extractUseBefore(content, found[j].k, imports, filePath),
                   filePath, found[j].k)]

\* scanFile: what one call pushes onto this.routes, and whether it threw
\* because the file cannot be read
scanFile(filePath) ==
  LET scan(content, imports) ==
        [threw |-> FALSE,
         routes |-> scanExpressRoutes(content, filePath, imports)
                    \o scanFastifyRoutes(content, filePath, imports)
                    \o scanDecorators(content, filePath, imports)]
  IN  IF ~fs[filePath].readable THEN [threw |-> TRUE, routes |-> <<>>]
      ELSE scan(readFileSync(filePath), extractImports(readFileSync(filePath)))

-----------------------------------------------------------------------------
(* The source tree that is scanned *)

\* registrations in the file api/f1.ts
MaxRegs == 2

ApiDir == <<"api">>
AdminDir == <<"admin">>

F1 == [dir |-> <<"api">>, base |-> "f1", ext |-> "ts"]
F2 == [dir |-> <<"api">>, base |-> "f2", ext |-> "js"]
F3 == [dir |-> <<"admin">>, base |-> "f3", ext |-> "ts"]
Dep == [dir |-> <<"api", "node_modules">>, base |-> "dep", ext |-> "ts"]
Notes == [dir |-> <<"api">>, base |-> "notes", ext |-> "md"]

\* the order in which the file system enumerates its files
GlobOrder == <<F1, Dep, Notes, F2, F3>>

IsPrefix(a, b) == Len(a) <= Len(b) /\ SubSeq(b, 1, Len(a)) = a

\* glob(`${scanPath}/**/*.{ts,js}`, {ignore: ['**/node_modules/**', '**/dist/**']})
glob(scanPath) ==
  SelectSeq(GlobOrder,
            LAMBDA f : /\ f \in DOMAIN fs
                       /\ IsPrefix(scanPath, f.dir)
                       /\ f.ext \in {"ts", "js"}
                       /\ "node_modules" \notin Range(f.dir)
                       /\ "dist" \notin Range(f.dir))

UserSchema == Ident(0, "User", 1)
GhostSchema == Ident(0, "Ghost", 1)

Dialects == {"express", "fastify", "decorator"}

RegSeqs(m) ==
  UNION {[1..k -> [dialect : Dialects, ref : {NoRef, UserSchema, GhostSchema}]] : k \in 0..m}

ScannedFile(readable, lines, regs) ==
  [readable |-> readable, imports |-> <<>>, lines |-> lines, regs |-> regs,
   classes |-> <<[at |-> 1, prefix |-> <<<<"base", 0>>>>]>>]

Instances == {1, 2}
Invocations == {1, 2}

InitScan ==
  \E regs \in RegSeqs(MaxRegs), bad \in {NoFile, F1, F2}, declared \in BOOLEAN,
     first \in {<<ApiDir>>, <<AdminDir, ApiDir>>}, other \in Instances :
    /\ fs = (F1 :> ScannedFile(bad # F1,
                     WithText("f1", IF declared
                                    THEN <<[name |-> UserSchema, kind |-> "zod"]>>
                                    ELSE <<>>),
                     [k \in DOMAIN regs |->
                        Registration(regs[k].dialect, <<"f1", k>>, regs[k].ref)]))
            @@ (F2 :> ScannedFile(bad # F2, <<>>,
                     <<Registration("express", <<"f2", 1>>, NoRef)>>))
            @@ (F3 :> ScannedFile(TRUE, <<>>,
                     <<Registration("decorator", <<"f3", 1>>, NoRef)>>))
            @@ (Dep :> ScannedFile(TRUE, <<>>,
                     <<Registration("express", <<"dep", 1>>, NoRef)>>))
            @@ (Notes :> ScannedFile(TRUE, <<>>, <<>>))
    \* `private routes: RouteInfo[] = []` of each instance
    /\ heap = <<<<>>, <<>>>>
    /\ instRoutes = [i \in Instances |-> i]
    /\ inv = [i \in Invocations |->
                [pc |-> "idle", inst |-> IF i = 1 THEN 1 ELSE other,
                 paths |-> IF i = 1 THEN first ELSE <<AdminDir>>,
                 pi |-> 0, files |-> <<>>, fi |-> 0, ret |-> 0, after |-> {}]]

\* registrations in a file of controller classes
MaxMethods == 2

\* the type `User` of a @Body() parameter and the return type `TUser`: both
\* resolve to the declaration of UserSchema
UserType == Ident(0, "User", 0)
TUser == Ident(1, "User", 0)

\* the registrations of such a file: a decorated method, async or not, with at
\* most one of @UseBefore (useBefore), a @Body() parameter (body) and a return
\* type (resp), and with or without a class header before it, whose
\* @JsonController has a path (prefixed) or none (plain); or an express call
\* whose first argument after the path (first) or a later one (later) names
\* the schema
MethodShapes ==
  [dialect : {"decorator"}, async : BOOLEAN,
   has : {"none", "useBefore", "body", "resp"}, class : {"none", "prefixed", "plain"}]
  \cup [dialect : {"express"}, async : {TRUE}, has : {"first", "later"}, class : {"none"}]

MethodSeqs(m) == UNION {[1..k -> MethodShapes] : k \in 0..m}

ControllerFile(shapes) ==
  [readable |-> TRUE, imports |-> <<>>,
   lines |-> WithText("f1", <<[name |-> UserSchema, kind |-> "zod"]>>),
   regs |-> [k \in DOMAIN shapes |->
               [dialect |-> shapes[k].dialect, method |-> "post", path |-> <<"f1", k>>,
                handler |-> "handler",
                ref |-> IF shapes[k].has \in {"useBefore", "first"} THEN UserSchema ELSE NoRef,
                later |-> IF shapes[k].has = "later" THEN UserSchema ELSE NoRef,
                async |-> shapes[k].async,
                bodyType |-> IF shapes[k].has = "body" THEN UserType ELSE NoRef,
                respType |-> IF shapes[k].has = "resp" THEN TUser ELSE NoRef]],
   classes |->
     LET at == SelectSeq([k \in DOMAIN shapes |-> k], LAMBDA k : shapes[k].class # "none")
     IN  [i \in DOMAIN at |->
            [at |-> at[i],
             prefix |-> IF shapes[at[i]].class = "prefixed"
                        THEN <<<<"base", at[i]>>>> ELSE <<>>]]]

\* the same tree with controller classes in api/f1.ts, scanned by invocation 1
\* on an instance of its own
InitControllers ==
  \E shapes \in MethodSeqs(MaxMethods) :
    /\ fs = (F1 :> ControllerFile(shapes))
            @@ (F2 :> ScannedFile(TRUE, <<>>,
                     <<Registration("express", <<"f2", 1>>, NoRef)>>))
            @@ (F3 :> ScannedFile(TRUE, <<>>,
                     <<Registration("decorator", <<"f3", 1>>, NoRef)>>))
            @@ (Dep :> ScannedFile(TRUE, <<>>,
                     <<Registration("express", <<"dep", 1>>, NoRef)>>))
            @@ (Notes :> ScannedFile(TRUE, <<>>, <<>>))
    /\ heap = <<<<>>, <<>>>>
    /\ instRoutes = [i \in Instances |-> i]
    /\ inv = [i \in Invocations |->
                [pc |-> "idle", inst |-> i,
                 paths |-> IF i = 1 THEN <<ApiDir>> ELSE <<AdminDir>>,
                 pi |-> 0, files |-> <<>>, fi |-> 0, ret |-> 0, after |-> {}]]

-----------------------------------------------------------------------------
(* ProjectScanner.scanProject, one action per stretch between two awaits *)

\* the loop from `for (const file of files)` on, entered with file fi of the
\* files of scan path pi: scanFile runs to its end, then `await` suspends the
\* invocation; an exception of scanFile rejects the invocation.
ScanFrom(i, pi, files, fi) ==
  LET target == instRoutes[inv[i].inst]
      after(pushed) ==
        IF pushed.threw
        THEN /\ inv' = [inv EXCEPT ![i].pc = "failed", ![i].pi = pi,
                                   ![i].files = files, ![i].fi = fi]
             /\ UNCHANGED heap
        ELSE /\ heap' = [heap EXCEPT ![target] = @ \o pushed.routes]
             /\ inv' = [inv EXCEPT ![i].pc = "file", ![i].pi = pi,
                                   ![i].files = files, ![i].fi = fi]
  IN  after(scanFile(files[fi]))

\* the outer loop reaches scan path pi: glob is called and awaited; after the
\* last scan path the invocation returns this.routes
GlobFrom(i, pi, routes) ==
  IF pi <= Len(inv[i].paths)
  THEN inv' = [inv EXCEPT ![i].pc = "glob", ![i].pi = pi, ![i].files = <<>>, ![i].fi = 0]
  ELSE inv' = [inv EXCEPT ![i].pc = "done", ![i].ret = routes]

\* the invocations that have returned or failed: a call that begins now begins
\* after each of them
Finished == {j \in Invocations : inv[j].pc \in {"done", "failed"}}

\* the call without `this.routes = []`: the array of the field is kept
ScanProjectCallKeepingRoutes(i) ==
  /\ inv[i].pc = "idle"
  /\ inv' = [inv EXCEPT ![i].pc = "glob", ![i].pi = 1, ![i].files = <<>>,
                         ![i].fi = 0, ![i].after = Finished]
  /\ UNCHANGED <<heap, instRoutes, fs, pathVars, resolveVars, convVars>>

\* the call: this.routes = [] and the first glob; inv[i].after records the
\* invocations that had finished when the call was made
ScanProjectCall(i) ==
  /\ inv[i].pc = "idle"
  /\ heap' = Append(heap, <<>>)
  /\ instRoutes' = [instRoutes EXCEPT ![inv[i].inst] = Len(heap) + 1]
  /\ inv' = IF 1 <= Len(inv[i].paths)
            THEN [inv EXCEPT ![i].pc = "glob", ![i].pi = 1, ![i].files = <<>>,
                             ![i].fi = 0, ![i].after = Finished]
            ELSE [inv EXCEPT ![i].pc = "done", ![i].ret = Len(heap) + 1,
                             ![i].after = Finished]
  /\ UNCHANGED <<fs, pathVars, resolveVars, convVars>>

\* glob has answered: the first file is scanned, or the next path is globbed
ResumeAfterGlob(i) ==
  /\ inv[i].pc = "glob"
  /\ LET files == glob(inv[i].paths[inv[i].pi])
     IN  IF files # <<>>
         THEN ScanFrom(i, inv[i].pi, files, 1)
         ELSE GlobFrom(i, inv[i].pi + 1, instRoutes[inv[i].inst]) /\ UNCHANGED heap
  /\ UNCHANGED <<instRoutes, fs, pathVars, resolveVars, convVars>>

\* `await this.scanFile(file)` has resumed: the next file, the next path or return
ResumeAfterScanFile(i) ==
  /\ inv[i].pc = "file"
  /\ IF inv[i].fi < Len(inv[i].files)
     THEN ScanFrom(i, inv[i].pi, inv[i].files, inv[i].fi + 1)
     ELSE GlobFrom(i, inv[i].pi + 1, instRoutes[inv[i].inst]) /\ UNCHANGED heap
  /\ UNCHANGED <<instRoutes, fs, pathVars, resolveVars, convVars>>

NextScan ==
  \E i \in Invocations :
    \/ ScanProjectCall(i)
    \/ ResumeAfterGlob(i)
    \/ ResumeAfterScanFile(i)

-----------------------------------------------------------------------------
(* The converters of validators.ts.  A declaration text is [dialect, call,   *)
(* braces, lines]: call tells that it holds `z.object(` / `Joi.object(`,     *)
(* braces that it holds `{ ... }`, lines are the lines that follow the       *)
(* opening brace.  A line is [kind, fields, text]:                           *)
(*   "fields"  one or more `name: z.base(...)modifiers,` and, in text, a     *)
(*             trailing `// comment`;                                        *)
(*   "jsdoc"   `/** text */`;  "block"  `/* text */`;  "slashes" `// text`;  *)
(*   "open"    `name: z.object({`, a nested object literal begins;           *)
(*   "close"   `}),`, it ends.                                               *)
(* A field is [name, base, args, wrap, optional, required, min, email,       *)
(* describe, items]: args tells that the base call has arguments             *)
(* (`z.array(z.number())`), wrap where the definition breaks onto the next   *)
(* line: "before" the base call (`name: z` / `.string()...`), "after" it     *)
(* (`name: z.string()` / `.optional(),`) or "none".                          *)

NoText == ""
NoMin == <<>>
NotConverted == [type |-> "not converted"]

Field(name, base) ==
  [name |-> name, base |-> base, args |-> FALSE, wrap |-> "none",
   optional |-> FALSE, required |-> FALSE, min |-> NoMin, email |-> FALSE,
   describe |-> NoText, items |-> "none"]

Line(kind, fields, text) == [kind |-> kind, fields |-> fields, text |-> text]

Blank == Line("blank", <<>>, NoText)

\* a property of a converted schema; format, minimum, description and items
\* are "none", NoMin, NoText and "none" when the key is not set
Property(type) ==
  [type |-> type, format |-> "none", minimum |-> NoMin, description |-> NoText,
   items |-> "none"]

\* { type: 'object' } and { type: 'object', properties, required }: required
\* is <<>> for `undefined`
ObjectSchema(hasProperties, entries) ==
  [type |-> "object", hasProperties |-> hasProperties,
   properties |->
     [n \in {entries[k].name : k \in DOMAIN entries} |->
        entries[CHOOSE k \in DOMAIN entries :
                  /\ entries[k].name = n
                  /\ \A j \in DOMAIN entries : entries[j].name = n => j <= k].property],
   required |->
     LET req == SelectSeq(entries, LAMBDA e : e.required)
     IN  [k \in DOMAIN req |-> req[k].name]]

Entry(name, property, required) ==
  [name |-> name, property |-> property, required |-> required]

\* zodSchema.match(/\{([\s\S]*?)\}/)[1].split('\n'): the rest of the line of the
\* opening brace, then the lines up to the first closing brace of the text
allLines(lines) ==
  LET closes == {i \in DOMAIN lines : lines[i].kind = "close"}
      last == IF closes = {} THEN Len(lines)
              ELSE (CHOOSE i \in closes : \A j \in closes : i <= j) - 1
  IN  <<Blank>> \o SubSeq(lines, 1, last) \o <<Blank>>

\* the fields of a line that /(\w+):\s*X\.(\w+)\(\)(.*)/ can match at: the base
\* call is on the line of the name and has no arguments
PropMatches(line) ==
  IF line.kind # "fields" THEN <<>>
  ELSE SelectSeq([k \in DOMAIN line.fields |-> [at |-> k, field |-> line.fields[k]]],
                 LAMBDA m : ~m.field.args /\ m.field.wrap # "before")

\* (.*): the modifiers that stand on the line after the matched base call,
\* those of the fields that follow on the line included
Modifiers(line, at) ==
  SelectSeq(SubSeq(line.fields, at, Len(line.fields)), LAMBDA f : f.wrap = "none")

FirstMin(mods) ==
  LET with == SelectSeq(mods, LAMBDA f : f.min # NoMin)
  IN  IF with = <<>> THEN NoMin ELSE with[1].min

FirstDescribe(mods) ==
  LET with == SelectSeq(mods, LAMBDA f : f.describe # NoText)
  IN  IF with = <<>> THEN NoText ELSE with[1].describe

FirstItems(mods) ==
  LET with == SelectSeq(mods, LAMBDA f : f.items # "none" /\ ~f.args)
  IN  IF with = <<>> THEN "none" ELSE with[1].items

mapZodType(zodType) ==
  CASE zodType = "string" -> "string"
    [] zodType = "number" -> "number"
    [] zodType = "boolean" -> "boolean"
    [] zodType = "date" -> "string"
    [] OTHER -> "string"

\* the description of a matched line: .describe(), else the trailing comment of
\* the line, else the documentation comment on the line before, else the block
\* comment on the line before
zodDescription(mods, line, prevLine) ==
  IF FirstDescribe(mods) # NoText THEN FirstDescribe(mods)
  ELSE IF line.text # NoText THEN line.text
  ELSE IF prevLine.kind \in {"jsdoc", "block"} THEN prevLine.text
  ELSE NoText

\* the loop body of parseZodObject for line i: the entry it adds, if any
zodLine(all, i) ==
  LET line == all[i]
      found == PropMatches(line)
      entry(m, mods) ==
        Entry(m.field.name,
              [type |-> mapZodType(m.field.base),
               format |-> IF \E k \in DOMAIN mods : mods[k].email THEN "email" ELSE "none",
               minimum |-> FirstMin(mods),
               description |-> zodDescription(mods, line, IF i > 1 THEN all[i - 1] ELSE Blank),
               items |-> "none"],
              ~\E k \in DOMAIN mods : mods[k].optional)
  IN  IF line.kind \in {"blank", "slashes"} \/ found = <<>> THEN <<>>
      ELSE <<entry(found[1], Modifiers(line, found[1].at))>>

\* the same without the null check of braceMatch: braceMatch[1] throws
parseZodObjectNoNullCheck(zodSchema) ==
  IF ~zodSchema.braces THEN Thrown
  ELSE ObjectSchema(TRUE, Flatten([i \in DOMAIN allLines(zodSchema.lines) |->
                                     zodLine(allLines(zodSchema.lines), i)]))

parseZodObject(zodSchema) ==
  IF ~zodSchema.braces THEN ObjectSchema(TRUE, <<>>)
  ELSE ObjectSchema(TRUE, Flatten([i \in DOMAIN allLines(zodSchema.lines) |->
                                     zodLine(allLines(zodSchema.lines), i)]))

ZodToSwagger(zodSchema) ==
  IF zodSchema.call THEN parseZodObject(zodSchema) ELSE ObjectSchema(FALSE, <<>>)

mapJoiType(joiType) ==
  CASE joiType = "string" -> "string"
    [] joiType = "number" -> "number"
    [] joiType = "boolean" -> "boolean"
    [] joiType = "date" -> "string"
    [] OTHER -> "string"

\* .description(), else the trailing comment of the line, else the
\* documentation comment on the line before
joiDescription(mods, line, prevLine) ==
  IF FirstDescribe(mods) # NoText THEN FirstDescribe(mods)
  ELSE IF line.text # NoText THEN line.text
  ELSE IF prevLine.kind = "jsdoc" THEN prevLine.text
  ELSE NoText

\* the loop body of parseJoiObject for line i
joiLine(all, i) ==
  LET line == all[i]
      found == PropMatches(line)
      entry(m, mods) ==
        Entry(m.field.name,
              [type |-> mapJoiType(m.field.base),
               format |-> "none",
               minimum |-> NoMin,
               description |-> joiDescription(mods, line, IF i > 1 THEN all[i - 1] ELSE Blank),
               items |-> IF m.field.base = "array" /\ FirstItems(mods) # "none"
                         THEN mapJoiType(FirstItems(mods)) ELSE "none"],
              \E k \in DOMAIN mods : mods[k].required)
  IN  IF line.kind \in {"blank", "slashes"} \/ found = <<>> THEN <<>>
      ELSE <<entry(found[1], Modifiers(line, found[1].at))>>

parseJoiObject(joiSchema) ==
  IF ~joiSchema.braces THEN ObjectSchema(TRUE, <<>>)
  ELSE ObjectSchema(TRUE, Flatten([i \in DOMAIN allLines(joiSchema.lines) |->
                                     joiLine(allLines(joiSchema.lines), i)]))

JoiToSwagger(joiSchema) ==
  IF joiSchema.call THEN parseJoiObject(joiSchema) ELSE ObjectSchema(FALSE, <<>>)

(* A class-validator text has the lines                                      *)
(*   "header"     `export class CreateUserDto {`;                            *)
(*   "decorator"  one line of decorators: its field holds email for          *)
(*                @IsEmail(), min for @Min(N), optional for @IsOptional(),   *)
(*                describe for @ApiProperty({ description }), base "array"   *)
(*                for @IsArray();                                            *)
(*   "property"   `name: word;` with, in text, a trailing `// comment`: its  *)
(*                field holds the name, the word of the type as base, args   *)
(*                for the suffix `[]` and optional for the marker `?`;       *)
(*   "jsdoc"      `/** text */`.                                             *)

mapClassValidatorType(cvType) ==
  CASE cvType = "string" -> "string"
    [] cvType = "number" -> "number"
    [] cvType = "boolean" -> "boolean"
    [] cvType = "Date" -> "string"
    [] OTHER -> "string"

\* propertyLine.match(/(\w+)\s*[?:]\s*(\w+)/): in `name?: word` the marker is
\* followed by the colon and not by a word, so the line does not match
classPropMatches(propertyLine) ==
  propertyLine.kind = "property" /\ ~propertyLine.fields[1].optional

\* the loop body of parseClassValidator for line i (i - 1 in the source)
classLine(lines, i) ==
  LET entry(d, propertyLine, p) ==
        Entry(p.name,
              [type |-> IF d.base = "array" THEN "array" ELSE mapClassValidatorType(p.base),
               format |-> IF d.email THEN "email" ELSE "none",
               minimum |-> d.min,
               description |->
                 IF d.describe # NoText THEN d.describe
                 ELSE IF propertyLine.text # NoText THEN propertyLine.text
                 ELSE IF i - 1 > 1 /\ lines[i - 1].kind = "jsdoc" THEN lines[i - 1].text
                 ELSE NoText,
               items |-> IF d.base = "array" THEN "string" ELSE "none"],
              ~p.optional /\ ~d.optional)
  IN  IF /\ lines[i].kind = "decorator"
         /\ i + 1 <= Len(lines)
         /\ classPropMatches(lines[i + 1])
      THEN <<entry(lines[i].fields[1], lines[i + 1], lines[i + 1].fields[1])>>
      ELSE <<>>

parseClassValidator(classSchema) ==
  LET lines == SelectSeq(classSchema.lines, LAMBDA l : l.kind # "blank")
  IN  ObjectSchema(TRUE, Flatten([i \in DOMAIN lines |-> classLine(lines, i)]))

ClassValidatorToSwagger(classSchema) == parseClassValidator(classSchema)

\* generator.ts: the converter of the route's dialect
convertValidationToSchema(validation, type) ==
  CASE type = "zod" -> ZodToSwagger(validation)
    [] type = "joi" -> JoiToSwagger(validation)
    [] type = "class-validator" -> ClassValidatorToSwagger(validation)
    [] OTHER -> ObjectSchema(FALSE, <<>>)

(* An interface body has the lines "jsdoc", "property" (`name: type;` or     *)
(* `name?: type;`, the field holds the type as base and the marker as        *)
(* optional), "readonly" (`readonly name: type;`) and "blank".               *)

ArrayTypes == {"string[]", "number[]", "Array<string>"}
UnionTypes == {"string | null"}

mapTypeScriptTypeToSwagger(tsType) ==
  CASE tsType = "string" -> "string"
    [] tsType = "number" -> "number"
    [] tsType = "boolean" -> "boolean"
    [] tsType \in ArrayTypes -> "array"
    [] tsType \in UnionTypes -> "object"
    [] OTHER -> "string"

\* the loop of parseTypeScriptInterface from line i on, currentComment being
\* the documentation comment not yet used
RECURSIVE interfaceLines(_, _, _)
interfaceLines(lines, i, currentComment) ==
  IF i > Len(lines) THEN <<>>
  ELSE IF lines[i].kind = "jsdoc" THEN interfaceLines(lines, i + 1, lines[i].text)
  ELSE IF lines[i].kind = "property"
       THEN <<[name |-> lines[i].fields[1].name,
               property |-> [description |-> currentComment,
                             type |-> mapTypeScriptTypeToSwagger(lines[i].fields[1].base),
                             required |-> ~lines[i].fields[1].optional,
                             tsType |-> lines[i].fields[1].base]]>>
            \o interfaceLines(lines, i + 1, NoText)
  ELSE interfaceLines(lines, i + 1, currentComment)

LastNamed(parsed) ==
  [n \in {parsed[k].name : k \in DOMAIN parsed} |->
     parsed[CHOOSE k \in DOMAIN parsed :
              /\ parsed[k].name = n
              /\ \A j \in DOMAIN parsed : parsed[j].name = n => j <= k].property]

\* the same with `required: optional`, the marker taken for the flag
parseTypeScriptInterfaceMarkerAsFlag(interfaceBody) ==
  LET parsed == interfaceLines(interfaceBody.lines, 1, NoText)
  IN  [type |-> "properties",
       properties |->
         LastNamed([k \in DOMAIN parsed |->
                      [parsed[k] EXCEPT !.property.required = ~parsed[k].property.required]])]

parseTypeScriptInterface(interfaceBody) ==
  LET parsed == interfaceLines(interfaceBody.lines, 1, NoText)
  IN  [type |-> "properties", properties |-> LastNamed(parsed)]

(* The declaration texts: up to MaxLines lines, each of one of the forms of  *)
(* its dialect, the fields named by their place (line, position).            *)

\* lines of a declaration text
MaxLines == 3

Optional(f) == [f EXCEPT !.optional = TRUE]

BuilderFields(dialect) ==
  LET f == Field(<<>>, "string")
  IN  { f, Optional(f), [f EXCEPT !.required = TRUE],
        [f EXCEPT !.base = "number", !.min = <<3>>],
        [f EXCEPT !.email = TRUE],
        [f EXCEPT !.describe = "described"],
        [f EXCEPT !.base = "array", !.items = "number", !.args = (dialect = "zod")],
        [f EXCEPT !.base = IF dialect = "zod" THEN "any" ELSE "object"],
        [Optional(f) EXCEPT !.wrap = "before"],
        [Optional(f) EXCEPT !.wrap = "after"] }

BuilderLines(dialect) ==
  LET f == Field(<<>>, "string")
  IN  {Line("fields", <<g>>, NoText) : g \in BuilderFields(dialect)}
      \cup { Line("fields", <<f>>, "inline"),
             Line("fields", <<[f EXCEPT !.describe = "described"]>>, "inline"),
             Line("fields", <<f, Optional([f EXCEPT !.base = "number"])>>, NoText),
             Line("fields", <<Optional(f), [f EXCEPT !.base = "number", !.min = <<3>>]>>, NoText),
             Line("jsdoc", <<>>, "doc"),
             Line("block", <<>>, "note"),
             Line("slashes", <<>>, "remark"),
             Line("open", <<[f EXCEPT !.base = "object", !.args = TRUE]>>, NoText),
             Line("close", <<>>, NoText) }

ClassLines ==
  LET d == Field(<<>>, "any")
      p == Field(<<>>, "string")
  IN  {Line("decorator", <<g>>, NoText) :
         g \in { d, [d EXCEPT !.email = TRUE], [d EXCEPT !.min = <<3>>],
                 [d EXCEPT !.base = "array"], Optional(d),
                 [d EXCEPT !.describe = "described"] }}
      \cup {Line("property", <<g>>, NoText) :
              g \in { p, Optional(p), [p EXCEPT !.base = "number", !.args = TRUE],
                      [p EXCEPT !.args = TRUE], [p EXCEPT !.base = "Address"] }}
      \cup { Line("property", <<p>>, "inline"),
             Line("jsdoc", <<>>, "doc"),
             Line("header", <<>>, NoText) }

InterfaceLines ==
  LET p == Field(<<>>, "string")
  IN  { Line("property", <<p>>, NoText), Line("property", <<Optional(p)>>, NoText),
        Line("property", <<[p EXCEPT !.base = "number[]"]>>, NoText),
        Line("property", <<Optional([p EXCEPT !.base = "string | null"])>>, NoText),
        Line("readonly", <<p>>, NoText),
        Line("jsdoc", <<>>, "doc"),
        Blank }

LinesOf(dialect) ==
  CASE dialect \in {"zod", "joi"} -> BuilderLines(dialect)
    [] dialect = "class-validator" -> ClassLines
    [] dialect = "interface" -> InterfaceLines
    [] OTHER -> {}

Named(lines) ==
  [i \in DOMAIN lines |->
     [lines[i] EXCEPT !.fields =
        [j \in DOMAIN lines[i].fields |-> [lines[i].fields[j] EXCEPT !.name = <<i, j>>]]]]

\* the same lines with one name for every field, as when a nested object
\* literal has a field named like a field of the object around it
SameNamed(lines) ==
  [i \in DOMAIN lines |->
     [lines[i] EXCEPT !.fields =
        [j \in DOMAIN lines[i].fields |-> [lines[i].fields[j] EXCEPT !.name = <<1, 1>>]]]]

Text(dialect, call, braces, lines) ==
  [dialect |-> dialect, call |-> call, braces |-> braces, lines |-> lines]

\* texts with an object body, and texts with none: no call of the builder
\* (`const name = z.string()`), a call without braces (`z.object(shape)`), an
\* empty text, a dialect the generator does not know
NoBody ==
  {Text(d, c, FALSE, <<>>) : d \in {"zod", "joi"}, c \in BOOLEAN}
  \cup {Text("class-validator", FALSE, FALSE, <<>>), Text("none", FALSE, FALSE, <<>>)}

(* The text of a file from the line of `const NAME =` on, as               *)
(* findSchemaDefinition reads it: each line is the sequence of its braces,   *)
(* its parentheses and, when the line ends with one, its semicolon.          *)

\* `const S = z.object({`, `a: z.string(),`, `})`, `});`, `return v.a > 0;`,
\* `.refine((v) => {`, `// note`, `{`, `}`, `z.union(`, `)`
DefinitionLines ==
  { <<"(", "{">>, <<"(", ")">>, <<"}", ")">>, <<"}", ")", ";">>, <<";">>,
    <<"(", "(", ")", "{">>, <<>>, <<"{">>, <<"}">>, <<"(">>, <<")">> }

Count(line, char) == Cardinality({k \in DOMAIN line : line[k] = char})

\* line.trim().endsWith(';')
endsWithSemicolon(line) == line # <<>> /\ line[Len(line)] = ";"

\* the loop `for (let i = schemaStartLine; ...)` of findSchemaDefinition from
\* line i on, entered with the counts so far: the index of the last line pushed
RECURSIVE lastSchemaLine(_, _, _, _, _)
lastSchemaLine(lines, i, braceCount, parenCount, foundStart) ==
  LET braces == braceCount + Count(lines[i], "{") - Count(lines[i], "}")
      parens == parenCount + Count(lines[i], "(") - Count(lines[i], ")")
      found == foundStart \/ Count(lines[i], "{") > 0
  IN  IF found /\ braces = 0 /\ parens = 0 THEN i
      ELSE IF endsWithSemicolon(lines[i]) THEN i
      ELSE IF i = Len(lines) THEN i
      ELSE lastSchemaLine(lines, i + 1, braces, parens, found)

\* schemaLines of findSchemaDefinition, for the text from schemaStartLine on
schemaLines(lines) ==
  IF lines = <<>> THEN <<>> ELSE SubSeq(lines, 1, lastSchemaLine(lines, 1, 0, 0, FALSE))

InitConvert ==
  /\ \/ \E d \in {"zod", "joi", "class-validator", "interface"}, n \in 0..MaxLines :
          \E ls \in [1..n -> LinesOf(d)] :
            decl = Text(d, d \in {"zod", "joi"}, TRUE, Named(ls))
     \/ \E d \in {"zod", "joi", "class-validator"}, n \in 2..MaxLines :
          \E ls \in [1..n -> LinesOf(d)] :
            decl = Text(d, d \in {"zod", "joi"}, TRUE, SameNamed(ls))
     \/ decl \in NoBody
     \/ \E n \in 1..MaxLines :
          \E ls \in [1..n -> DefinitionLines] : decl = Text("definition", FALSE, FALSE, ls)
  /\ conv = NotConverted

\* SwaggerGenerator.convertValidationToSchema(validation, type)
ConvertCall ==
  /\ conv = NotConverted
  /\ decl.dialect \notin {"interface", "definition"}
  /\ conv' = convertValidationToSchema(decl, decl.dialect)
  /\ UNCHANGED <<decl, fs, pathVars, resolveVars, scanVars>>

\* RouteScanner.parseTypeScriptInterface(interfaceBody)
ParseInterfaceCall ==
  /\ conv = NotConverted
  /\ decl.dialect = "interface"
  /\ conv' = parseTypeScriptInterface(decl)
  /\ UNCHANGED <<decl, fs, pathVars, resolveVars, scanVars>>

\* ProjectScanner.findSchemaDefinition(content, schemaName), from the line of
\* the declaration on: the body of the declaration it returns
FindSchemaDefinitionCall ==
  /\ conv = NotConverted
  /\ decl.dialect = "definition"
  /\ conv' = [type |-> "definition", body |-> schemaLines(decl.lines)]
  /\ UNCHANGED <<decl, fs, pathVars, resolveVars, scanVars>>

NextConvert == ConvertCall \/ ParseInterfaceCall \/ FindSchemaDefinitionCall

-----------------------------------------------------------------------------
(* SwaggerGenerator.generate.  A route is [method, path, validation] as the  *)
(* scanners make it; its validation is Undefined or [type, body, responses,  *)
(* query, params, headers], each of the five a declaration text or NoSchema  *)
(* (responses stands for responses['200']).  spec.paths is a function from   *)
(* the path keys to a function from the method keys to the operations.       *)

NotGenerated == [openapi |-> "not generated"]
NoSchema == [dialect |-> "undefined"]
NoParameters == {[name |-> "undefined"]}
NoRequestBody == [required |-> FALSE]

toLowerCase(method) ==
  CASE method = "GET" -> "get"
    [] method = "POST" -> "post"
    [] method = "PUT" -> "put"
    [] method = "DELETE" -> "delete"
    [] method = "PATCH" -> "patch"

\* getSchemaDescription: the last .describe() / .description() of a text of the
\* dialect of the tag, else the first JSDoc comment, else the first block
\* comment; the pattern of the inline comment, /\/\/\s*(.+)$/, matches on the
\* last line of the text only, which is the line that closes the declaration.
getSchemaDescription(validation, type) ==
  LET fields == Flatten([i \in DOMAIN validation.lines |-> validation.lines[i].fields])
      described == SelectSeq(fields, LAMBDA f : f.describe # NoText)
      jsdoc == SelectSeq(validation.lines, LAMBDA l : l.kind = "jsdoc")
      block == SelectSeq(validation.lines, LAMBDA l : l.kind = "block")
  IN  IF type \in {"zod", "joi"} /\ type = validation.dialect /\ described # <<>>
      THEN described[Len(described)].describe
      ELSE IF jsdoc # <<>> THEN jsdoc[1].text
      ELSE IF block # <<>> THEN block[1].text
      ELSE NoText

\* extractResponseDescription(validation, '200', type)
extractResponseDescription(validation, type) ==
  IF getSchemaDescription(validation, type) # NoText
  THEN getSchemaDescription(validation, type)
  ELSE "Successful response"

\* the entries that one of params, query and headers adds to
\* operation.parameters, as a set
parametersIn(where, validation, type) ==
  LET schema == convertValidationToSchema(validation, type)
  IN  IF ~schema.hasProperties THEN {}
      ELSE {[name |-> n, in |-> where,
             required |-> where = "path" \/ n \in Range(schema.required),
             schema |-> schema.properties[n]] : n \in DOMAIN schema.properties}

\* the request body without the test of the method
requestBodyAnyMethod(route) ==
  IF route.validation # Undefined /\ route.validation.body # NoSchema
  THEN [required |-> TRUE, content |-> "application/json",
        schema |-> convertValidationToSchema(route.validation.body,
                                             route.validation.type)]
  ELSE NoRequestBody

\* operation.requestBody: set only for POST/PUT/PATCH routes with a body schema
requestBody(route) ==
  IF /\ route.validation # Undefined
     /\ route.validation.body # NoSchema
     /\ route.method \in {"POST", "PUT", "PATCH"}
  THEN [required |-> TRUE, content |-> "application/json",
        schema |-> convertValidationToSchema(route.validation.body,
                                             route.validation.type)]
  ELSE NoRequestBody

\* the object `operation` that addRouteToSpec builds for a route
operation(route, path) ==
  LET v == route.validation
  IN  [summary |-> <<route.method, path>>,
       responses |->
         IF v # Undefined /\ v.responses # NoSchema
         THEN [description |-> extractResponseDescription(v.responses, v.type),
               schema |-> convertValidationToSchema(v.responses, v.type)]
         ELSE [description |-> "Successful response",
               schema |-> ObjectSchema(FALSE, <<>>)],
       requestBody |-> requestBody(route),
       parameters |->
         IF v # Undefined /\ (v.query # NoSchema \/ v.params # NoSchema \/ v.headers # NoSchema)
         THEN (IF v.params # NoSchema THEN parametersIn("path", v.params, v.type) ELSE {})
              \cup (IF v.query # NoSchema THEN parametersIn("query", v.query, v.type) ELSE {})
              \cup (IF v.headers # NoSchema THEN parametersIn("header", v.headers, v.type)
                    ELSE {})
         ELSE NoParameters]

\* addRouteToSpec with `spec.paths[path] = {}` made for every route
addRouteToSpecNewItem(paths, route) ==
  LET path == normalizePath(route.path)
  IN  [q \in DOMAIN paths \cup {path} |->
         IF q = path THEN (toLowerCase(route.method) :> operation(route, path))
         ELSE paths[q]]

\* addRouteToSpec(spec, route), on spec.paths
addRouteToSpec(paths, route) ==
  LET path == normalizePath(route.path)
      method == toLowerCase(route.method)
      item == IF path \in DOMAIN paths THEN paths[path] ELSE <<>>
  IN  [q \in DOMAIN paths \cup {path} |->
         IF q = path
         THEN [m \in DOMAIN item \cup {method} |->
                 IF m = method THEN operation(route, path) ELSE item[m]]
         ELSE paths[q]]

\* routes.forEach(route => this.addRouteToSpec(spec, route)), from route k on
RECURSIVE forEach(_, _, _)
forEach(paths, rts, k) ==
  IF k > Len(rts) THEN paths
  ELSE forEach(addRouteToSpec(paths, rts[k]), rts, k + 1)

\* generate(config, routes)
generate(cfg, rts) ==
  [openapi |-> IF cfg.openApiVersion = NoText THEN "3.0.0" ELSE cfg.openApiVersion,
   paths |-> forEach(<<>>, rts, 1)]

\* routes handed to one call of generate
MaxRoutes == 3

Methods == {"GET", "POST", "PUT", "DELETE", "PATCH"}

\* '/a', '/:a' and '/{a}'
GeneratedPaths == { <<"/", "a">>, <<"/", ":", "a">>, <<"/", "{", "a", "}">> }

Validation(type, body, responses, queryText) ==
  [type |-> type, body |-> body, responses |-> responses, query |-> queryText,
   params |-> NoSchema, headers |-> NoSchema]

\* a Zod body; a Joi body; a described response type and no body; a Zod body
\* with query parameters
ZodBody ==
  Validation("zod",
             Text("zod", TRUE, TRUE, Named(<<Line("fields", <<Field(<<>>, "string")>>, NoText)>>)),
             NoSchema, NoSchema)

OtherValidations ==
  LET f == Field(<<>>, "string")
      joi == Text("joi", TRUE, TRUE,
                  Named(<<Line("fields", <<[f EXCEPT !.required = TRUE]>>, NoText)>>))
      resp == Text("zod", TRUE, TRUE,
                   Named(<<Line("jsdoc", <<>>, "doc"),
                           Line("fields", <<[f EXCEPT !.base = "number"]>>, NoText)>>))
      page == Text("zod", TRUE, TRUE, Named(<<Line("fields", <<Optional(f)>>, NoText)>>))
  IN  { Validation("joi", joi, NoSchema, NoSchema),
        Validation("zod", NoSchema, resp, NoSchema),
        Validation("zod", ZodBody.body, NoSchema, page) }

\* every method on '/a' and GET and POST on '/:a' and '/{a}', each with no
\* validation or with a body schema, and POST of '/a' with each of the other
\* validations
Routes ==
  [method : Methods, path : {<<"/", "a">>}, validation : {Undefined, ZodBody}]
  \cup [method : {"GET", "POST"}, path : GeneratedPaths \ {<<"/", "a">>},
        validation : {Undefined, ZodBody}]
  \cup [method : {"POST"}, path : {<<"/", "a">>}, validation : OtherValidations]

InitGenerate ==
  /\ config \in {[openApiVersion |-> NoText], [openApiVersion |-> "3.0.3"]}
  /\ \E n \in 0..MaxRoutes : routeList \in [1..n -> Routes]
  /\ spec = NotGenerated

GenerateCall ==
  /\ spec = NotGenerated
  /\ spec' = generate(config, routeList)
  /\ UNCHANGED <<pathIn, pathOut, config, routeList, fs, resolveVars, scanVars, convVars>>

-----------------------------------------------------------------------------
(* Specifications *)

IdlePath == pathIn = <<>> /\ pathOut = Unset /\ IdleGenerate
IdleResolve == fs = <<>> /\ query = <<>> /\ seen = <<>> /\ rs = NoCall
IdleScan == heap = <<>> /\ instRoutes = <<>> /\ inv = <<>>
IdleConvert == decl = <<>> /\ conv = <<>>

\* the state after construction, for each of the three parts of the program
PathInit == InitPath /\ IdleResolve /\ IdleScan /\ IdleConvert

ResolveInit == InitResolve /\ IdlePath /\ IdleScan /\ IdleConvert

ScanInit ==
  (InitScan \/ InitControllers) /\ IdlePath /\ query = <<>> /\ seen = <<>> /\ rs = NoCall /\ IdleConvert

ConvertInit == InitConvert /\ IdlePath /\ IdleResolve /\ IdleScan
SpecPath == PathInit /\ [][NormalizePathCall]_vars

SpecScan == ScanInit /\ [][NextScan]_vars

SpecResolve == ResolveInit /\ [][NextResolve]_vars
SpecConvert == ConvertInit /\ [][NextConvert]_vars

GenerateInit ==
  InitGenerate /\ pathIn = <<>> /\ pathOut = Unset /\ IdleResolve /\ IdleScan /\ IdleConvert

SpecGenerate == GenerateInit /\ [][GenerateCall]_vars

-----------------------------------------------------------------------------
(* What the claims speak of *)

\* the registrations of the readable files under the scan paths, each as
\* <<file, position>>, in scan-path, enumeration and source order
RegistrationsUnder(paths) ==
  Flatten([j \in DOMAIN paths |->
    Flatten([m \in DOMAIN glob(paths[j]) |->
      IF fs[glob(paths[j])[m]].readable
      THEN [k \in DOMAIN fs[glob(paths[j])[m]].regs |-> <<glob(paths[j])[m], k>>]
      ELSE <<>>])])

\* the registrations that the routes of a list were made from
SourcesOf(routes) == [k \in DOMAIN routes |-> routes[k].src]

\* the list an invocation has returned, as its caller sees it
Returned(i) == heap[inv[i].ret]

OwnInstances == inv[1].inst # inv[2].inst

\* C1: Two invocations over disjoint scan paths, interleaved at their awaits,
\* on one instance or on two: each returns exactly the routes of the
\* registrations under its own scan paths.
C1_NoInterference ==
  \A i \in Invocations :
    inv[i].pc = "done" /\ inv[1].paths = <<ApiDir>> =>
      /\ Len(Returned(i)) = Len(RegistrationsUnder(inv[i].paths))
      /\ Range(SourcesOf(Returned(i))) = Range(RegistrationsUnder(inv[i].paths))

\* C2: The returned list is in scan-path order, then enumeration order, then
\* the order of the registrations in the text of each file, whatever their
\* dialects (invocations that share no instance).
C2_SourceOrder ==
  \A i \in Invocations :
    OwnInstances /\ inv[i].pc = "done" =>
      SourcesOf(Returned(i)) = RegistrationsUnder(inv[i].paths)

\* C5: Every registration of a scanned file has exactly one route in the
\* result, with its method and path; when the schema it names is declared
\* nowhere, that route has no validation (invocations that share no instance).
C5_OneRoutePerRegistration ==
  \A i \in Invocations :
    OwnInstances /\ inv[i].pc = "done" =>
      \A src \in Range(RegistrationsUnder(inv[i].paths)) :
        LET reg == fs[src[1]].regs[src[2]]
            made == SelectSeq(Returned(i), LAMBDA r : r.src = src)
        IN  /\ Len(made) = 1
            /\ made[1].method = toUpperCase(reg.method)
            /\ made[1].path[Len(made[1].path)] = reg.path
            /\ reg.ref = GhostSchema => made[1].validation = Undefined

\* C6: A file that cannot be read is skipped: no invocation fails, and a
\* finished one holds the routes of every readable file (invocations that
\* share no instance).
C6_UnreadableSkipped ==
  \A i \in Invocations :
    OwnInstances =>
      /\ inv[i].pc # "failed"
      /\ inv[i].pc = "done" =>
           Range(SourcesOf(Returned(i))) = Range(RegistrationsUnder(inv[i].paths))

DeclaredIn(p, n) == \E i \in DOMAIN fs[p].lines : fs[p].lines[i].name = n

DeclarationTexts(p, n) ==
  {fs[p].lines[i].text : i \in {j \in DOMAIN fs[p].lines : fs[p].lines[j].name = n}}

\* the file an import specifier denotes for the TypeScript compiler:
\* <specifier>.ts, else <specifier>/index.ts
ModuleFile(cur, specifier) ==
  LET direct == resolvedPath(cur, specifier)
      index == [dir |-> Append(direct.dir, specifier.base), base |-> "index", ext |-> "ts"]
  IN  IF direct \in DOMAIN fs THEN direct
      ELSE IF index \in DOMAIN fs THEN index
      ELSE NoFile

ImportedFrom(p, n) ==
  IF n \in DOMAIN extractImports(fs[p])
  THEN ModuleFile(p, extractImports(fs[p])[n])
  ELSE NoFile

\* n is declared in the module from which p imports it
DeclaredInImport(p, n) ==
  /\ ImportedFrom(p, n) # NoFile
  /\ fs[ImportedFrom(p, n)].readable
  /\ DeclaredIn(ImportedFrom(p, n), n)

\* neither the name nor any name a fallback derives from it has a declaration in
\* the originating file or in the module it is imported from
NothingDeclared(p, n) ==
  \A m \in Range(RelevantNames(n)) : ~DeclaredIn(p, m) /\ ~DeclaredInImport(p, m)

TotalReads(log) ==
  LET RECURSIVE Sum(_)
      Sum(k) == IF k = 0 THEN 0 ELSE Len(log[k].reads) + Sum(k - 1)
  IN  Sum(Len(log))

\* the query is imported by each of the two files
ImportCycle == \A p \in DOMAIN fs : query \in DOMAIN extractImports(fs[p])

-----------------------------------------------------------------------------
(* Claims *)

\* C3: resolveSchema returns the declaration named `name` of the
\* originating file whenever there is one; it consults the imported file only
\* when the local lookup fails; it tries a derived name only after the lookups
\* of the name itself, local and imported, have all been made and have failed.
C3_LookupOrder ==
  rs # NoCall =>
    /\ DeclaredIn(rs.file, rs.name) =>
         /\ rs.result # Undefined
         /\ rs.result.body \in DeclarationTexts(rs.file, rs.name)
    /\ \A k \in DOMAIN rs.log :
         rs.log[k].op \in {"load", "loadTs"} /\ rs.log[k].name = rs.name
           => ~DeclaredIn(rs.file, rs.name)
    /\ \A k \in DOMAIN rs.log, j \in DOMAIN rs.log :
         rs.log[k].name # rs.name /\ j > k => rs.log[j].name # rs.name

\* C4: when the identifier and the names derived from it have no declaration in
\* the originating file or in an imported one (the import target may be missing
\* or unreadable), resolveSchema returns undefined; and no call ever throws.
C4_AbsentNotError ==
  rs # NoCall =>
    /\ rs.result # Thrown
    /\ NothingDeclared(rs.file, rs.name) => rs.result = Undefined

C4_Witness ==
  /\ rs # NoCall
  /\ NothingDeclared(rs.file, rs.name)
  /\ \E k \in DOMAIN rs.log :
       /\ rs.log[k].op = "load"
       /\ rs.log[k].reads[1] \in DOMAIN fs
       /\ ~fs[rs.log[k].reads[1]].readable
  /\ rs.result = Undefined

C8_CycleTerminates ==
  rs # NoCall /\ ImportCycle =>
    /\ TotalReads(rs.log) <= 8
    /\ \A k \in DOMAIN rs.log : Len(rs.log[k].reads) = 1
    /\ (\A p \in DOMAIN fs, m \in Range(RelevantNames(rs.name)) : ~DeclaredIn(p, m))
         => rs.result = Undefined

C8_Witness ==
  /\ rs # NoCall
  /\ ImportCycle
  /\ \E k \in DOMAIN rs.log :
       /\ rs.log[k].op = "load" /\ rs.log[k].name = rs.name
       /\ rs.log[k].reads[1] \in DOMAIN fs /\ fs[rs.log[k].reads[1]].readable
  /\ rs.result = Undefined

\* C9: a schema binding S declared in file B and imported by name
\* into file A resolves from A to the same schema as from B.
C9_CrossFileSame ==
  \A pa \in DOMAIN seen, pb \in DOMAIN seen :
    ( /\ pa # pb
      /\ ImportedFrom(pa, query) = pb
      /\ ~DeclaredIn(pa, query)
      /\ \E i \in DOMAIN fs[pb].lines : includesConst(fs[pb].lines[i], query) )
    => seen[pa] = seen[pb]

\* a colon that the pattern /:(\w+)/ matches at
ParamColon(p, i) == p[i] = ":" /\ i < Len(p) /\ IsWord(p[i + 1])

\* such a colon at the start of a path segment
SegmentColon(p, i) == ParamColon(p, i) /\ (i = 1 \/ p[i - 1] = "/")

RECURSIVE WordRunStart(_, _)
WordRunStart(p, i) ==
  IF i > 1 /\ IsWord(p[i - 1]) THEN WordRunStart(p, i - 1) ELSE i

\* i is the last character of a name that follows a colon for which IsParam holds
NameEnd(p, i, IsParam(_, _)) ==
  /\ IsWord(p[i])
  /\ (i = Len(p) \/ ~IsWord(p[i + 1]))
  /\ WordRunStart(p, i) > 1
  /\ IsParam(p, WordRunStart(p, i) - 1)

\* p with `{` for each colon for which IsParam holds and `}` after its name
Braced(p, IsParam(_, _)) ==
  Flatten([i \in DOMAIN p |->
             IF IsParam(p, i) THEN <<"{">>
             ELSE IF NameEnd(p, i, IsParam) THEN <<p[i], "}">>
             ELSE <<p[i]>>])

\* C10, for colon-prefixed segments only: each path segment that starts with
\* `:name` has its `:name` replaced by `{name}`, and nothing else changes; a
\* path without such a segment is returned as is.
C10_SegmentsOnly ==
  pathOut # Unset =>
    /\ pathOut = Braced(pathIn, SegmentColon)
    /\ (\A i \in DOMAIN pathIn : ~SegmentColon(pathIn, i)) => pathOut = pathIn

\* C10, for every colon the pattern matches: every colon that is followed by a word character, at the
\* start of a segment or inside one, is replaced with the word characters after
\* it, `:name`, by `{name}`; nothing else changes; a path in which no colon is
\* followed by a word character is returned as is.
C10_EveryColonName ==
  pathOut # Unset =>
    /\ pathOut = Braced(pathIn, ParamColon)
    /\ (\A i \in DOMAIN pathIn : ~ParamColon(pathIn, i)) => pathOut = pathIn
    /\ pathIn = ExamplePath => pathOut = ExampleNormalized

C10_Witness ==
  /\ pathOut # Unset
  /\ \E i \in DOMAIN pathIn : ParamColon(pathIn, i) /\ ~SegmentColon(pathIn, i)
  /\ \E i \in DOMAIN pathIn : SegmentColon(pathIn, i)
  /\ pathOut = Braced(pathIn, ParamColon)
  /\ pathOut # pathIn

-----------------------------------------------------------------------------
(* Declaration texts and what the converters return for them *)

Converted == conv # NotConverted
Builder == decl.dialect \in {"zod", "joi"} /\ decl.call /\ decl.braces

\* nested object literals opened and not yet closed before line i
Depth(lines, i) ==
  Cardinality({k \in 1..(i - 1) : lines[k].kind = "open"})
    - Cardinality({k \in 1..(i - 1) : lines[k].kind = "close"})

\* every nested object literal is closed, nothing else is
WellFormed(lines) ==
  /\ \A i \in DOMAIN lines : lines[i].kind = "close" => Depth(lines, i) > 0
  /\ Depth(lines, Len(lines) + 1) = 0

\* the fields of the declared object itself: those of the lines outside every
\* nested object literal, the field that opens one included
DeclaredFields(lines) ==
  UNION {Range(lines[i].fields) : i \in {k \in DOMAIN lines : Depth(lines, k) = 0}}

\* C11: A well-formed builder-chain declaration (Zod or Joi) yields exactly
\* one property per declared field: fields whose base call has arguments,
\* fields that span lines, several fields on a line and fields after a nested
\* object literal included.
C11_OnePropertyPerField ==
  Converted /\ Builder /\ WellFormed(decl.lines) =>
    DOMAIN conv.properties = {f.name : f \in DeclaredFields(decl.lines)}

\* C12: In both builder dialects the required list holds exactly the declared
\* fields that lack the optionality modifier.
C12_RequiredAreNotOptional ==
  Converted /\ Builder /\ WellFormed(decl.lines) =>
    Range(conv.required) = {f.name : f \in {g \in DeclaredFields(decl.lines) : ~g.optional}}

\* the description the precedence gives: the field's own call-style
\* description, else the documentation comment before it, else the block
\* comment before it, else the trailing comment of its line, else none
Precedence(own, prevLine, trailing) ==
  IF own # NoText THEN own
  ELSE IF prevLine.kind \in {"jsdoc", "block"} THEN prevLine.text
  ELSE trailing

LineBefore(lines, i) == IF i > 1 THEN lines[i - 1] ELSE Blank

\* the lines of a builder text that hold one field, all of it
Alone(lines) ==
  {i \in DOMAIN lines : /\ lines[i].kind = "fields"
                        /\ Len(lines[i].fields) = 1
                        /\ lines[i].fields[1].wrap = "none"}

\* the property lines of a class text that follow a line of decorators
Decorated(lines) ==
  {i \in DOMAIN lines : /\ lines[i].kind = "property"
                        /\ LineBefore(lines, i).kind = "decorator"}

\* C13: A converted field has the description the precedence gives: its own
\* call-style description or annotation, else the preceding documentation
\* comment, else the preceding block comment, else the trailing same-line
\* comment, else none.
C13_DescriptionPrecedence ==
  Converted /\ decl.braces =>
    /\ Builder =>
         \A i \in Alone(decl.lines) :
           decl.lines[i].fields[1].name \in DOMAIN conv.properties =>
             conv.properties[decl.lines[i].fields[1].name].description =
               Precedence(decl.lines[i].fields[1].describe,
                          LineBefore(decl.lines, i), decl.lines[i].text)
    /\ decl.dialect = "class-validator" =>
         \A i \in Decorated(decl.lines) :
           decl.lines[i].fields[1].name \in DOMAIN conv.properties =>
             conv.properties[decl.lines[i].fields[1].name].description =
               Precedence(decl.lines[i - 1].fields[1].describe,
                          LineBefore(decl.lines, i - 1), decl.lines[i].text)

\* the canonical type a type token denotes: isArray tells that the token is
\* written as an array (`word[]`) or marked as one
Canonical(token, isArray) ==
  IF isArray \/ token = "array" THEN "array"
  ELSE IF token \in {"string", "number", "boolean", "object"} THEN token
  ELSE "string"

\* the fields of a builder text that have a property in the result
Emitted ==
  {f \in UNION {Range(decl.lines[i].fields) : i \in DOMAIN decl.lines} :
     f.name \in DOMAIN conv.properties}

\* C14: Every emitted type is the canonical type its token denotes: array and
\* object tokens give array and object, and only a token that denotes none of
\* string, number, boolean, array, object gives string.
C14_CanonicalTypes ==
  Converted /\ decl.braces =>
    /\ Builder =>
         \A f \in Emitted : conv.properties[f.name].type = Canonical(f.base, FALSE)
    /\ decl.dialect = "class-validator" =>
         \A i \in Decorated(decl.lines) :
           decl.lines[i].fields[1].name \in DOMAIN conv.properties =>
             conv.properties[decl.lines[i].fields[1].name].type =
               Canonical(decl.lines[i].fields[1].base,
                         decl.lines[i].fields[1].args
                           \/ decl.lines[i - 1].fields[1].base = "array")

\* the constraints declared by c are those of the property
Extracted(c, property, itemType) ==
  /\ c.min # NoMin => property.minimum = c.min
  /\ c.email => property.format = "email"
  /\ itemType # "none" => property.items = itemType

\* C15: Each converter extracts every kind of constraint of a converted field:
\* the numeric lower bound as minimum, the email marker as format email, the
\* declared item type of an array field as items.
C15_ConstraintsExtracted ==
  Converted /\ decl.braces =>
    /\ Builder =>
         \A i \in Alone(decl.lines) :
           decl.lines[i].fields[1].name \in DOMAIN conv.properties =>
             Extracted(decl.lines[i].fields[1],
                       conv.properties[decl.lines[i].fields[1].name],
                       decl.lines[i].fields[1].items)
    /\ decl.dialect = "class-validator" =>
         \A i \in Decorated(decl.lines) :
           decl.lines[i].fields[1].name \in DOMAIN conv.properties =>
             Extracted(decl.lines[i - 1].fields[1],
                       conv.properties[decl.lines[i].fields[1].name],
                       IF /\ decl.lines[i].fields[1].args
                          /\ decl.lines[i - 1].fields[1].base = "array"
                       THEN decl.lines[i].fields[1].base ELSE "none")

\* a text with no recognizable object body: a builder text without the call
\* of the builder or without braces, a class text without a decorated property
NoObjectBody ==
  \/ decl.dialect \in {"zod", "joi"} /\ (~decl.call \/ ~decl.braces)
  \/ decl.dialect = "class-validator" /\ Decorated(decl.lines) = {}

\* C16: No converter raises, and a text with no recognizable object body
\* converts to an empty object schema: type object, no field, no required
\* list.
C16_NoBodyEmptySchema ==
  Converted /\ decl.dialect # "interface" =>
    /\ conv # Thrown
    /\ NoObjectBody =>
         /\ conv.type = "object"
         /\ DOMAIN conv.properties = {}
         /\ conv.required = <<>>

C16_Witness ==
  /\ Converted
  /\ decl.dialect = "zod" /\ decl.call /\ ~decl.braces
  /\ conv.type = "object"

-----------------------------------------------------------------------------
(* Controller classes and express call chains *)

\* the routes an invocation has returned for a registration
MadeFrom(i, src) == SelectSeq(Returned(i), LAMBDA r : r.src = src)

\* the registrations of one dialect under the scan paths of an invocation
Registered(i, dialect) ==
  {src \in Range(RegistrationsUnder(inv[i].paths)) :
     fs[src[1]].regs[src[2]].dialect = dialect}

\* the validation that the decorators and the signature of the method of
\* registration reg alone give: body and properties from its @UseBefore
\* schema, else from its @Body() parameter type, responses['200'] from its
\* return type, undefined when it has none that resolves
ownValidation(content, reg, imports, filePath) ==
  LET build(resolved) ==
        LET ub == resolved[reg.ref]
            dto == resolved[reg.bodyType]
            resp == resolved[reg.respType]
            bodyFrom == IF ub # Undefined THEN ub ELSE dto
        IN  IF bodyFrom = Undefined /\ resp = Undefined THEN Undefined
            ELSE [type |-> "zod",
                  body |-> IF bodyFrom # Undefined THEN bodyFrom.body ELSE Absent,
                  properties |-> IF bodyFrom # Undefined THEN bodyFrom.properties
                                 ELSE NoProperties,
                  responses |-> IF resp # Undefined THEN resp.body ELSE Absent]
  IN  build([n \in {reg.ref, reg.bodyType, reg.respType} |->
               IF n = NoRef THEN Undefined
               ELSE resolveSchema(n, content, imports, filePath).r])

\* C18: The validation of the route of a decorated method, async or not, comes
\* from the decorators and the signature of that method alone, never from
\* those of the method before or after it (invocations that share no
\* instance).
C18_OwnMethodOnly ==
  \A i \in Invocations :
    OwnInstances /\ inv[i].pc = "done" =>
      \A src \in Registered(i, "decorator") :
        \A j \in DOMAIN MadeFrom(i, src) :
          MadeFrom(i, src)[j].validation =
            ownValidation(fs[src[1]], fs[src[1]].regs[src[2]],
                          extractImports(fs[src[1]]), src[1])

\* the path of the @JsonController of the class that registration k stands
\* in: the last class header before it, '' when there is none or it has no path
enclosingPrefix(content, k) ==
  LET before == SelectSeq(content.classes, LAMBDA c : c.at <= k)
  IN  IF before = <<>> THEN <<>> ELSE before[Len(before)].prefix

\* C19: Every HTTP-verb decorator gives exactly one route, whose path is the
\* base path of the class it stands in followed by its own path: each class
\* of a file has its own prefix, and a method in no prefixed class has the
\* empty base path (invocations that share no instance).
C19_OwnClassPrefix ==
  \A i \in Invocations :
    OwnInstances /\ inv[i].pc = "done" =>
      \A src \in Registered(i, "decorator") :
        /\ Len(MadeFrom(i, src)) = 1
        /\ MadeFrom(i, src)[1].path =
             enclosingPrefix(fs[src[1]], src[2]) \o <<fs[src[1]].regs[src[2]].path>>

\* the argument after the path that names a schema or a DTO, NoRef if none does
namedArgument(reg) ==
  FirstRef(SelectSeq(<<reg.ref, reg.later>>, matchesSchemaOrDto))

\* C20: The route of an express call chain has the validation resolved from
\* the schema or DTO that one of its arguments after the path names, whatever
\* the position of that argument, and none when no argument names one
\* (invocations that share no instance).
C20_SchemaArgumentAnyPosition ==
  \A i \in Invocations :
    OwnInstances /\ inv[i].pc = "done" =>
      \A src \in Registered(i, "express") :
        \A j \in DOMAIN MadeFrom(i, src) :
          MadeFrom(i, src)[j].validation =
            extractValidationFromMiddleware(fs[src[1]], namedArgument(fs[src[1]].regs[src[2]]),
                                            extractImports(fs[src[1]]), src[1])

-----------------------------------------------------------------------------
(* The body of a declaration *)

\* the braces and parentheses of the text up to character k of line i
UpTo(lines, i, k) == Flatten(SubSeq(lines, 1, i - 1)) \o SubSeq(lines[i], 1, k)

\* braces and parentheses balance after character k of line i: one has been
\* opened, and as many of each kind are closed as are opened
BalancedAt(lines, i, k) ==
  /\ Count(UpTo(lines, i, k), "{") + Count(UpTo(lines, i, k), "(") > 0
  /\ Count(UpTo(lines, i, k), "{") = Count(UpTo(lines, i, k), "}")
  /\ Count(UpTo(lines, i, k), "(") = Count(UpTo(lines, i, k), ")")

BalanceLines(lines) ==
  {i \in DOMAIN lines : \E k \in DOMAIN lines[i] : BalancedAt(lines, i, k)}

\* C21: The body that findSchemaDefinition returns for a declaration that
\* opens its object literal on its first line (`const S = z.object({`) runs
\* from that line through the line on which braces and parentheses first
\* balance, and to the end of the file when they never balance.
C21_WholeDeclaration ==
  Converted /\ decl.dialect = "definition" /\ decl.lines[1] = <<"(", "{">> =>
    conv.body =
      IF BalanceLines(decl.lines) = {} THEN decl.lines
      ELSE SubSeq(decl.lines, 1,
                  CHOOSE i \in BalanceLines(decl.lines) :
                    \A j \in BalanceLines(decl.lines) : i <= j)


-----------------------------------------------------------------------------
(* Declarations of one file *)

\* the lines of file p that hold `const n =`
ConstLinesOf(p, n) ==
  {i \in DOMAIN fs[p].lines : includesConst(fs[p].lines[i], n)}

LastOf(S) == CHOOSE i \in S : \A j \in S : j <= i

\* C22: When the originating file holds two declarations `const NAME = ...` of
\* the looked-up name, the lookup returns the later one.
C22_LastDeclarationWins ==
  rs # NoCall /\ Cardinality(ConstLinesOf(rs.file, rs.name)) >= 2 =>
    /\ rs.result # Undefined
    /\ rs.result.body = fs[rs.file].lines[LastOf(ConstLinesOf(rs.file, rs.name))].text

\* C26: The declaration that a lookup returns carries the tag of its own
\* initializer: joi for `const N = Joi.object(...)`, zod for
\* `const N = z.object(...)`, whatever else the file declares.
C26_OwnDialect ==
  rs # NoCall /\ rs.result # Undefined =>
    \A p \in DOMAIN fs : \A i \in DOMAIN fs[p].lines :
      fs[p].lines[i].text = rs.result.body /\ fs[p].lines[i].kind \in ConstKinds
        => rs.result.type = fs[p].lines[i].kind


-----------------------------------------------------------------------------
(* Options-object registrations *)

\* the validation that the options object of registration reg alone gives: the
\* declaration of the schema under its `schema` key, undefined when it has none
ownOptions(content, reg, imports, filePath) ==
  IF reg.ref = NoRef THEN Undefined
  ELSE schemaLookups([r |-> Undefined, log |-> <<>>],
                     reg.ref, content, imports, filePath).r

\* C23: The route of `fastify.<verb>(path, { schema: ... })` has the validation
\* resolved from the schema that its own options object names, and none when
\* that object names no schema, whatever identifiers ending in Schema stand
\* elsewhere in the file (invocations that share no instance).
C23_OwnOptionsSchema ==
  \A i \in Invocations :
    OwnInstances /\ inv[i].pc = "done" =>
      \A src \in Registered(i, "fastify") :
        \A j \in DOMAIN MadeFrom(i, src) :
          MadeFrom(i, src)[j].validation =
            ownOptions(fs[src[1]], fs[src[1]].regs[src[2]],
                       extractImports(fs[src[1]]), src[1])


-----------------------------------------------------------------------------
(* Naming fallbacks *)

\* the lookups at the head of the log that are made with the identifier itself
\* as a schema binding: the local one and, when there is one, the imported one
DirectLookups(log, name) ==
  IF Len(log) >= 2 /\ log[2].op = "load" /\ log[2].name = name THEN 2 ELSE 1

\* the lookups of the log made with a name as a schema binding
SchemaLookupsOf(log, name) ==
  {k \in DOMAIN log : log[k].op \in {"find", "load"} /\ log[k].name = name}

ImportsOf(p) == extractImports(fs[p])

\* the lookups k and k + 1 of the log are the local lookup of name and then,
\* when that one fails and the file imports name, the lookup in the module it
\* is imported from; the call returns what the first of them finds
LocalThenImport(k, name) ==
  /\ Len(rs.log) >= k
  /\ rs.log[k] = Local("find", name, rs.file)
  /\ ConstLinesOf(rs.file, name) # {} =>
       /\ Len(rs.log) = k
       /\ rs.result # Undefined
       /\ rs.result.body \in DeclarationTexts(rs.file, name)
  /\ ConstLinesOf(rs.file, name) = {} /\ name \in DOMAIN ImportsOf(rs.file) =>
       /\ Len(rs.log) >= k + 1
       /\ rs.log[k + 1] =
            External("load", name, <<resolvedPath(rs.file, ImportsOf(rs.file)[name])>>)
  /\ ConstLinesOf(rs.file, name) = {} /\ name \notin DOMAIN ImportsOf(rs.file)
       /\ Len(rs.log) > k =>
       rs.log[k + 1].name # name

\* the identifier is written with the type prefix: T and then the type's name
TypePrefixed(n) == n.t >= 1

\* C24: When the lookups of an identifier that starts with the type prefix T
\* (TUser) fail, in the file and in the module it is imported from, resolveSchema
\* looks up the identifier without the T and with the suffix Schema (UserSchema),
\* in the file and then in the module that name is imported from; for an
\* identifier without the prefix no derived name is looked up before the lookup
\* of the identifier as an interface or type.
C24_TypePrefixFallback ==
  rs # NoCall =>
    /\ TypePrefixed(rs.name) /\ Len(rs.log) > DirectLookups(rs.log, rs.name) =>
         LocalThenImport(DirectLookups(rs.log, rs.name) + 1,
                         appendSchema(stripLeadingT(rs.name)))
    /\ TypePrefixed(rs.name) /\ ConstLinesOf(rs.file, rs.name) = {}
         /\ rs.name \notin DOMAIN ImportsOf(rs.file) =>
         Len(rs.log) > DirectLookups(rs.log, rs.name)
    /\ ~TypePrefixed(rs.name) =>
         \A k \in DOMAIN rs.log :
           rs.log[k].name # rs.name => \E j \in 1..(k - 1) : rs.log[j].op = "findTs"

\* a call for TUser whose direct lookups fail returns the declaration of
\* UserSchema from the module that UserSchema is imported from
C24_Witness ==
  /\ rs # NoCall
  /\ TypePrefixed(rs.name)
  /\ Len(rs.log) = DirectLookups(rs.log, rs.name) + 2
  /\ rs.log[Len(rs.log)].op = "load"
  /\ rs.log[Len(rs.log)].name = appendSchema(stripLeadingT(rs.name))
  /\ rs.result # Undefined


\* the last lookup of the identifier as an interface or type, 0 if none was made
LastInterfaceLookup(log) ==
  LET made == {k \in DOMAIN log : log[k].op \in {"findTs", "loadTs"}}
  IN  IF made = {} THEN 0 ELSE LastOf(made)

\* C25 as stated: the identifier with the suffix Schema is looked up only when
\* no name with that suffix was looked up before in the same call.
C25_OnlyUntriedSuffix ==
  rs # NoCall =>
    \A k \in SchemaLookupsOf(rs.log, appendSchema(rs.name)) :
      \A j \in 1..(k - 1) :
        rs.log[j].name # appendSchema(rs.name) => ~endsWithSchema(rs.log[j].name)

\* C25: resolveSchema looks up the identifier with the suffix Schema exactly
\* when every earlier lookup has failed and the identifier itself does not
\* carry the suffix, also when the type-prefix fallback has looked up a
\* suffixed name before (UserSchema, then TUserSchema for TUser); it looks it up
\* in the file and then in the module that name is imported from.
C25_SuffixFallback ==
  rs # NoCall =>
    /\ \A k \in SchemaLookupsOf(rs.log, appendSchema(rs.name)) :
         ~endsWithSchema(rs.name) /\ 0 < LastInterfaceLookup(rs.log)
           /\ LastInterfaceLookup(rs.log) < k
    /\ ( /\ ~endsWithSchema(rs.name)
         /\ LastInterfaceLookup(rs.log) > 0
         /\ rs.result # Undefined => rs.result.properties.as # "interface" )
       => LocalThenImport(LastInterfaceLookup(rs.log) + 1, appendSchema(rs.name))

\* a call for TUser that has looked up UserSchema in vain returns the
\* declaration of TUserSchema from the module that name is imported from
C25_Witness ==
  /\ rs # NoCall
  /\ TypePrefixed(rs.name)
  /\ SchemaLookupsOf(rs.log, appendSchema(stripLeadingT(rs.name))) # {}
  /\ rs.log[Len(rs.log)].op = "load"
  /\ rs.log[Len(rs.log)].name = appendSchema(rs.name)
  /\ rs.result # Undefined


-----------------------------------------------------------------------------
(* Calls made one after another on one instance *)

\* invocation i was called after invocation j had returned, on the same instance
CalledAfter(i, j) ==
  /\ i # j
  /\ inv[i].inst = inv[j].inst
  /\ inv[i].pc # "idle"
  /\ j \in inv[i].after
  /\ inv[j].pc = "done"

\* the list holds one route for each registration under the scan paths of
\* invocation i, and no other route
ExactlyOwn(routes, i) ==
  /\ Len(routes) = Len(RegistrationsUnder(inv[i].paths))
  /\ Range(SourcesOf(routes)) = Range(RegistrationsUnder(inv[i].paths))

\* C27: When a call of scanProject is made after another call on the same
\* instance has returned, the list that the earlier call returned still holds
\* exactly the routes of the earlier call, while the later call runs and after
\* it, and the later call returns exactly the routes of its own scan paths.
C27_SequentialCalls ==
  \A i \in Invocations, j \in Invocations :
    CalledAfter(i, j) =>
      /\ ExactlyOwn(Returned(j), j)
      /\ inv[i].pc = "done" => ExactlyOwn(Returned(i), i)

\* both calls have returned, one after the other on one instance, each with
\* routes, and the two lists are two arrays
C27_Witness ==
  \E i \in Invocations, j \in Invocations :
    /\ CalledAfter(i, j)
    /\ inv[i].pc = "done"
    /\ Returned(i) # <<>>
    /\ Returned(j) # <<>>
    /\ inv[i].ret # inv[j].ret


-----------------------------------------------------------------------------
(* The shape of a converted schema *)

NoDuplicates(seq) == \A i \in DOMAIN seq, j \in DOMAIN seq : seq[i] = seq[j] => i = j

\* C28: In every schema that ZodToSwagger, JoiToSwagger and
\* ClassValidatorToSwagger produce, the required list holds no name twice and
\* every name of it is a key of properties, also when the text declares a
\* field name more than once.
C28_RequiredIsASet ==
  Converted /\ decl.dialect \in {"zod", "joi", "class-validator"} /\ conv.hasProperties =>
    /\ NoDuplicates(conv.required)
    /\ Range(conv.required) \subseteq DOMAIN conv.properties


-----------------------------------------------------------------------------
(* The paths of a generated specification *)

Generated == spec # NotGenerated

\* the path key and the method key of a route
KeyOf(route) == <<normalizePath(route.path), toLowerCase(route.method)>>

\* the operations of spec.paths, each as <<path key, method key>>
Operations == {<<q, m>> \in UNION {{q} \X DOMAIN spec.paths[q] : q \in DOMAIN spec.paths} : TRUE}

\* the last route of the list with the given keys
LastRoute(key) ==
  routeList[LastOf({k \in DOMAIN routeList : KeyOf(routeList[k]) = key})]

\* C29: After generate, spec.paths[normalizePath(p)][lowercase(m)] holds the
\* operation built from the last route with that normalized path and method,
\* and spec.paths holds one operation for each distinct pair of normalized
\* path and method among the routes, no other.
C29_LastRouteWins ==
  Generated =>
    /\ Operations = {KeyOf(routeList[k]) : k \in DOMAIN routeList}
    /\ \A key \in Operations :
         spec.paths[key[1]][key[2]] = operation(LastRoute(key), key[1])

\* three operations from routes of which two have one normalized path and one
\* method ('/:a' and '/{a}') and differ in their validation, and two have one
\* path and two methods
C29_Witness ==
  /\ Generated
  /\ \E i \in DOMAIN routeList, j \in DOMAIN routeList :
       /\ i < j
       /\ KeyOf(routeList[i]) = KeyOf(routeList[j])
       /\ routeList[i].path # routeList[j].path
       /\ routeList[i].validation # routeList[j].validation
  /\ \E q \in DOMAIN spec.paths : Cardinality(DOMAIN spec.paths[q]) = 2

\* C30: An operation has a requestBody exactly when the route it was built
\* from has a body schema and the method POST, PUT or PATCH; the requestBody is
\* required and holds, under application/json, the schema converted from that
\* body.
C30_RequestBodyOnlyForWrites ==
  Generated =>
    \A key \in Operations :
      LET route == LastRoute(key)
          emitted == spec.paths[key[1]][key[2]].requestBody
          hasBody == route.validation # Undefined /\ route.validation.body # NoSchema
      IN  /\ emitted # NoRequestBody <=> hasBody /\ key[2] \in {"post", "put", "patch"}
          /\ emitted # NoRequestBody =>
               /\ emitted.required
               /\ emitted.content = "application/json"
               /\ emitted.schema =
                    convertValidationToSchema(route.validation.body, route.validation.type)

\* a DELETE route with a body schema whose operation has no requestBody, and a
\* POST route with one whose operation has it
C30_Witness ==
  /\ Generated
  /\ \E key \in Operations :
       /\ key[2] = "delete"
       /\ LastRoute(key).validation # Undefined
       /\ LastRoute(key).validation.body # NoSchema
       /\ spec.paths[key[1]][key[2]].requestBody = NoRequestBody
  /\ \E key \in Operations :
       /\ key[2] = "post"
       /\ spec.paths[key[1]][key[2]].requestBody # NoRequestBody

====
